---- MODULE Spec2Model ----
(***************************************************************************)
(* Verification model of skillpack: the reference tracer (trace.ts), the   *)
(* flat path remapper, the frontmatter validator and the packagers         *)
(* (pack.ts) and the content rewriter (rewrite.ts).                        *)
(*                                                                         *)
(* Paths are sequences of path components (<<"r","docs","api.md">> is      *)
(* /r/docs/api.md); text is a sequence of symbols, each symbol one         *)
(* character ("[", "#", " ", "\n", ...) or one word of characters that no  *)
(* regular expression of the program tells apart ("docs", "api.md").       *)
(***************************************************************************)
EXTENDS Naturals, Integers, Sequences, FiniteSets, TLC

VARIABLES
  \* ---- file system read by the tracer
  fs,          \* absolute path -> "none" | "file" | "dir"
  docs,        \* markdown file -> the raw references in its content
  \* ---- traceReferences
  tpc,         \* "idle" | "tracing" | "done"
  files,       \* Set<string> files
  added,       \* the files in the order they were first added to the Set
  errors,      \* string[] errors (the path of each "Reference not found")
  visited,     \* Set<string> visited
  call,        \* <<filePath>> for a pending call trace(filePath), or <<>>
  stack,       \* the active loops of the recursion, innermost last
  reads,       \* the documents read and reference-extracted so far, in order
  steps        \* the steps the trace has taken so far

traceVars == <<fs, docs, tpc, files, added, errors, visited, call, stack, reads, steps>>

(***************************************************************************)
(* Bounds                                                                  *)
(***************************************************************************)
\* references in all the documents of one file system together
MaxRefs == 2

(***************************************************************************)
(* node:path                                                               *)
(***************************************************************************)
Last(s) == s[Len(s)]

Front(s) == SubSeq(s, 1, Len(s) - 1)

\* path.normalize on the components of an absolute path: "." is dropped,
\* ".." removes the component before it (and is dropped at the root)
RECURSIVE NormalizeFrom(_, _)
NormalizeFrom(done, rest) ==
  IF rest = <<>> THEN done
  ELSE IF Head(rest) = "." THEN NormalizeFrom(done, Tail(rest))
  ELSE IF Head(rest) = ".."
    THEN NormalizeFrom(IF done = <<>> THEN done ELSE Front(done), Tail(rest))
  ELSE NormalizeFrom(Append(done, Head(rest)), Tail(rest))

\* path.resolve(basePath, ref) for an absolute basePath and a relative ref
Resolve(basePath, ref) == NormalizeFrom(<<>>, basePath \o ref)

\* path.dirname of an absolute path
Dirname(p) == IF p = <<>> THEN p ELSE Front(p)

\* path.basename
Basename(p) == Last(p)

\* path.join(dir, name)
Join(dir, name) == Append(dir, name)

(***************************************************************************)
(* The file system the tracer walks                                        *)
(***************************************************************************)
RootDir == <<"r">>

SkillPath == <<"r", "SKILL.md">>

\* the paths that may exist; every other path does not exist
Universe ==
  { <<>>, RootDir, SkillPath,
    <<"r", "a.md">>,
    <<"r", "d">>, <<"r", "d", "b.md">>, <<"r", "d", "c.sh">>,
    <<"r", "d", "e">>, <<"r", "d", "e", "b.md">> }

\* the names that end in ".md"
MdNames == {"SKILL.md", "a.md", "b.md"}

EndsWithMd(p) == p # <<>> /\ Last(p) \in MdNames

\* a tree: the root directory and the root document exist, a path exists
\* only inside a directory, and directory d holds the script c.sh
FsShapes ==
  { f \in [Universe -> {"none", "file", "dir"}] :
      /\ f[<<>>] = "dir" /\ f[RootDir] = "dir" /\ f[SkillPath] = "file"
      /\ f[<<"r", "a.md">>] # "dir"
      /\ f[<<"r", "d">>] # "file"
      /\ f[<<"r", "d", "e">>] # "file"
      /\ f[<<"r", "d", "b.md">>] # "dir"
      /\ f[<<"r", "d", "c.sh">>] = (IF f[<<"r", "d">>] = "dir" THEN "file" ELSE "none")
      /\ f[<<"r", "d", "e", "b.md">>] # "dir"
      /\ \A p \in Universe :
           (p # <<>> /\ f[p] # "none") => f[Dirname(p)] = "dir" }

\* the raw (relative) references a document may hold
RawRefs ==
  { <<"a.md">>, <<"d">>, <<"..", "a.md">>, <<".">> }

RECURSIVE SeqsUpTo(_, _)
SeqsUpTo(S, n) ==
  IF n = 0 THEN {<<>>}
  ELSE LET shorter == SeqsUpTo(S, n - 1)
       IN  shorter \cup {Append(s, x) : s \in {t \in shorter : Len(t) = n - 1}, x \in S}

\* the references of document p among the (document, reference) pairs s,
\* in their order
RECURSIVE RefsIn(_, _)
RefsIn(s, p) ==
  IF s = <<>> THEN <<>>
  ELSE IF Head(s)[1] = p THEN <<Head(s)[2]>> \o RefsIn(Tail(s), p)
  ELSE RefsIn(Tail(s), p)

MdPaths == {q \in Universe : EndsWithMd(q)}

\* the contents of the markdown files of file system f: at most MaxRefs
\* references in all, and none in a file that does not exist
DocContents(f) ==
  { [p \in MdPaths |-> RefsIn(s, p)] :
      s \in SeqsUpTo({p \in MdPaths : f[p] = "file"} \X RawRefs, MaxRefs) }

\* call holds the argument of the pending call of trace, or nothing
NoCall == <<>>

Pending(filePath) == <<filePath>>

\* fs.existsSync
ExistsSync(p) == p \in Universe /\ fs[p] # "none"

\* fs.statSync(p).isDirectory()
IsDirectory(p) == p \in Universe /\ fs[p] = "dir"

\* the names fs.readdirSync(dir) returns
DirNames(dir) ==
  { Last(p) : p \in {q \in Universe : q # <<>> /\ Dirname(q) = dir /\ fs[q] # "none"} }

\* the orders in which readdirSync may list a set of names
RECURSIVE Orders(_)
Orders(S) ==
  IF S = {} THEN {<<>>}
  ELSE UNION { {<<x>> \o s : s \in Orders(S \ {x})} : x \in S }

RangeOf(s) == {s[i] : i \in 1..Len(s)}

(***************************************************************************)
(* trace.ts: extractReferences                                             *)
(***************************************************************************)
\* the references resolved against the directory of the root document
ExtractReferencesFromRoot(content, basePath) ==
  [i \in 1..Len(content) |-> Resolve(RootDir, content[i])]

\* refs.map((ref) => path.resolve(basePath, ref)), for the raw references
\* the lexer found in the content
ExtractReferences(content, basePath) ==
  [i \in 1..Len(content) |-> Resolve(basePath, content[i])]

(***************************************************************************)
(* trace.ts: traceReferences                                               *)
(***************************************************************************)
\* files.add(p), for the order in which the Set iterates
AddTo(order, p) == IF p \in RangeOf(order) THEN order ELSE Append(order, p)

RefsFrame(refs) == [kind |-> "refs", dir |-> <<>>, todo |-> refs]

EntriesFrame(dir, names) == [kind |-> "entries", dir |-> dir, todo |-> names]

TraceInit ==
  /\ fs \in FsShapes
  /\ docs \in DocContents(fs)
  /\ tpc = "idle"
  /\ files = {}
  /\ added = <<>>
  /\ errors = <<>>
  /\ visited = {}
  /\ call = NoCall
  /\ stack = <<>>
  /\ reads = <<>>
  /\ steps = 0

\* trace(absoluteSkillPath)
TraceStart ==
  /\ tpc = "idle"
  /\ tpc' = "tracing"
  /\ call' = Pending(SkillPath)
  /\ UNCHANGED <<fs, docs, files, added, errors, visited, stack, reads>>

\* fs.readFileSync(p), extractReferences, and the start of the loop over
\* the references
ReadAndLoop(p, stk) ==
  /\ reads' = Append(reads, p)
  /\ stack' = Append(stk, RefsFrame(ExtractReferences(docs[p], Dirname(p))))

\* if (visited.has(absolute)) return;
TraceVisited ==
  /\ tpc = "tracing" /\ call # NoCall
  /\ Resolve(call[1], <<>>) \in visited
  /\ call' = NoCall
  /\ UNCHANGED <<fs, docs, tpc, files, added, errors, visited, stack, reads>>

\* a missing path that ends the whole walk (a throw instead of errors.push
\* and return)
TraceMissingAborts ==
  /\ tpc = "tracing" /\ call # NoCall
  /\ LET absolute == Resolve(call[1], <<>>)
     IN  /\ absolute \notin visited
         /\ ~ExistsSync(absolute)
         /\ visited' = visited \cup {absolute}
         /\ errors' = Append(errors, call[1])
  /\ call' = NoCall
  /\ stack' = <<>>
  /\ UNCHANGED <<fs, docs, tpc, files, added, reads>>

\* if (!fs.existsSync(absolute)) { errors.push(...); return; }
TraceMissing ==
  /\ tpc = "tracing" /\ call # NoCall
  /\ LET absolute == Resolve(call[1], <<>>)
     IN  /\ absolute \notin visited
         /\ ~ExistsSync(absolute)
         /\ visited' = visited \cup {absolute}
         /\ errors' = Append(errors, call[1])
  /\ call' = NoCall
  /\ UNCHANGED <<fs, docs, tpc, files, added, stack, reads>>

\* if (stat.isDirectory()) { const entries = fs.readdirSync(...); for ... }
TraceDirectory ==
  /\ tpc = "tracing" /\ call # NoCall
  /\ LET absolute == Resolve(call[1], <<>>)
     IN  /\ absolute \notin visited
         /\ ExistsSync(absolute)
         /\ IsDirectory(absolute)
         /\ visited' = visited \cup {absolute}
         /\ \E entries \in Orders(DirNames(absolute)) :
              stack' = Append(stack, EntriesFrame(absolute, entries))
  /\ call' = NoCall
  /\ UNCHANGED <<fs, docs, tpc, files, added, errors, reads>>

\* the file branch without visited.add(absolute)
TraceFileUnguarded ==
  /\ tpc = "tracing" /\ call # NoCall
  /\ LET absolute == Resolve(call[1], <<>>)
     IN  /\ absolute \notin visited
         /\ ExistsSync(absolute)
         /\ ~IsDirectory(absolute)
         /\ files' = files \cup {absolute}
         /\ added' = AddTo(added, absolute)
         /\ IF EndsWithMd(absolute)
              THEN ReadAndLoop(absolute, stack)
              ELSE UNCHANGED <<stack, reads>>
  /\ call' = NoCall
  /\ UNCHANGED <<fs, docs, tpc, errors, visited>>

\* else { files.add(absolute); if (absolute.endsWith(".md")) ... }
TraceFile ==
  /\ tpc = "tracing" /\ call # NoCall
  /\ LET absolute == Resolve(call[1], <<>>)
     IN  /\ absolute \notin visited
         /\ ExistsSync(absolute)
         /\ ~IsDirectory(absolute)
         /\ visited' = visited \cup {absolute}
         /\ files' = files \cup {absolute}
         /\ added' = AddTo(added, absolute)
         /\ IF EndsWithMd(absolute)
              THEN ReadAndLoop(absolute, stack)
              ELSE UNCHANGED <<stack, reads>>
  /\ call' = NoCall
  /\ UNCHANGED <<fs, docs, tpc, errors>>

\* the directory loop without the recursion into subdirectories
StepEntryShallow ==
  /\ tpc = "tracing" /\ call = NoCall /\ stack # <<>>
  /\ LET top == Last(stack)
         rest == [stack EXCEPT ![Len(stack)].todo = Tail(top.todo)]
     IN  /\ top.kind = "entries" /\ top.todo # <<>>
         /\ LET entryPath == Join(top.dir, Head(top.todo))
            IN  IF IsDirectory(entryPath)
                  THEN /\ call' = NoCall
                       /\ stack' = rest
                       /\ UNCHANGED <<files, added, reads>>
                  ELSE /\ files' = files \cup {entryPath}
                       /\ added' = AddTo(added, entryPath)
                       /\ call' = NoCall
                       /\ IF EndsWithMd(entryPath)
                            THEN ReadAndLoop(entryPath, rest)
                            ELSE stack' = rest /\ UNCHANGED reads
  /\ UNCHANGED <<fs, docs, tpc, errors, visited>>

\* one iteration of for (const entry of entries) in the directory branch
StepEntry ==
  /\ tpc = "tracing" /\ call = NoCall /\ stack # <<>>
  /\ LET top == Last(stack)
         rest == [stack EXCEPT ![Len(stack)].todo = Tail(top.todo)]
     IN  /\ top.kind = "entries" /\ top.todo # <<>>
         /\ LET entryPath == Join(top.dir, Head(top.todo))
            IN  IF IsDirectory(entryPath)
                  THEN /\ call' = Pending(entryPath)
                       /\ stack' = rest
                       /\ UNCHANGED <<files, added, reads>>
                  ELSE /\ files' = files \cup {entryPath}
                       /\ added' = AddTo(added, entryPath)
                       /\ call' = NoCall
                       /\ IF EndsWithMd(entryPath)
                            THEN ReadAndLoop(entryPath, rest)
                            ELSE stack' = rest /\ UNCHANGED reads
  /\ UNCHANGED <<fs, docs, tpc, errors, visited>>

\* one iteration of for (const ref of refs) trace(ref)
StepRef ==
  /\ tpc = "tracing" /\ call = NoCall /\ stack # <<>>
  /\ LET top == Last(stack)
     IN  /\ top.kind = "refs" /\ top.todo # <<>>
         /\ call' = Pending(Head(top.todo))
         /\ stack' = [stack EXCEPT ![Len(stack)].todo = Tail(top.todo)]
  /\ UNCHANGED <<fs, docs, tpc, files, added, errors, visited, reads>>

\* a loop ran out: control returns to the enclosing loop
LoopEnd ==
  /\ tpc = "tracing" /\ call = NoCall /\ stack # <<>>
  /\ Last(stack).todo = <<>>
  /\ stack' = Front(stack)
  /\ UNCHANGED <<fs, docs, tpc, files, added, errors, visited, call, reads>>

\* trace(absoluteSkillPath) returned: return { files, errors, categories }
TraceReturn ==
  /\ tpc = "tracing" /\ call = NoCall /\ stack = <<>>
  /\ tpc' = "done"
  /\ UNCHANGED <<fs, docs, files, added, errors, visited, call, stack, reads>>



(***************************************************************************)
(* Text: sequences of symbols                                              *)
(***************************************************************************)
NL == "\n"

SP == " "

\* the words made of [\w-] only that start with a lowercase letter
LowerWords ==
  { "name", "description", "license", "allowed-tools", "compatibility",
    "metadata", "tags", "references", "key", "note", "v", "demo", "t",
    "docs", "scripts", "assets", "examples", "ts" }

\* the words made of [\w-] only that start with another character
OtherWords == {"Tags", "Content", "-"}

\* [\w-]
IsWordSym(c) == c \in LowerWords \cup OtherWords

\* \s
IsSpace(c) == c \in {SP, NL}

\* s.split(sep), for a separator of one symbol
RECURSIVE Split(_, _)
Split(s, sep) ==
  IF \A i \in 1..Len(s) : s[i] # sep THEN <<s>>
  ELSE LET k == CHOOSE i \in 1..Len(s) :
                  s[i] = sep /\ \A j \in 1..(i - 1) : s[j] # sep
       IN  <<SubSeq(s, 1, k - 1)>> \o Split(SubSeq(s, k + 1, Len(s)), sep)

\* the concatenation of the sequences of ss, with sep between them
RECURSIVE JoinWith(_, _)
JoinWith(ss, sep) ==
  IF ss = <<>> THEN <<>>
  ELSE IF Len(ss) = 1 THEN ss[1]
  ELSE ss[1] \o sep \o JoinWith(Tail(ss), sep)

\* s.trim()
RECURSIVE TrimStart(_)
TrimStart(s) == IF s # <<>> /\ IsSpace(Head(s)) THEN TrimStart(Tail(s)) ELSE s

RECURSIVE TrimEnd(_)
TrimEnd(s) == IF s # <<>> /\ IsSpace(Last(s)) THEN TrimEnd(Front(s)) ELSE s

Trim(s) == TrimEnd(TrimStart(s))

(***************************************************************************)
(* pack.ts: validateFrontmatter, extractName                               *)
(***************************************************************************)
STANDARD_FIELDS ==
  {"name", "description", "license", "allowed-tools", "compatibility", "metadata"}

\* content.match(/^---\n([\s\S]*?)\n---/): the text of group 1, from the
\* third symbol to the first later line break that "---" follows
NoMatch == [found |-> FALSE, yaml |-> <<>>]

FrontmatterMatch(content) ==
  IF /\ Len(content) >= 2
     /\ content[1] = "---"
     /\ content[2] = NL
     /\ \E j \in 3..(Len(content) - 1) : content[j] = NL /\ content[j + 1] = "---"
    THEN LET j == CHOOSE i \in 3..(Len(content) - 1) :
                    /\ content[i] = NL /\ content[i + 1] = "---"
                    /\ \A k \in 3..(i - 1) : ~(content[k] = NL /\ content[k + 1] = "---")
         IN  [found |-> TRUE, yaml |-> SubSeq(content, 3, j - 1)]
    ELSE NoMatch

\* line.match(/^([a-z][\w-]*):/): the length of group 1, or 0
KeyMatchLen(line) ==
  IF line = <<>> \/ Head(line) \notin LowerWords THEN 0
  ELSE LET k == CHOOSE i \in 1..Len(line) :
                  /\ \A j \in 1..i : IsWordSym(line[j])
                  /\ (i = Len(line) \/ ~IsWordSym(line[i + 1]))
       IN  IF k < Len(line) /\ line[k + 1] = ":" THEN k ELSE 0

\* STANDARD_FIELDS.has(key), for a key given as its symbols
IsStandardField(key) == Len(key) = 1 /\ key[1] \in STANDARD_FIELDS

\* the loop over the lines: the keys pushed to invalid, in order
RECURSIVE InvalidKeys(_)
InvalidKeys(lines) ==
  IF lines = <<>> THEN <<>>
  ELSE LET line == Head(lines)
           n == KeyMatchLen(line)
       IN  (IF n > 0 /\ ~IsStandardField(SubSeq(line, 1, n))
              THEN <<SubSeq(line, 1, n)>> ELSE <<>>)
           \o InvalidKeys(Tail(lines))

Accepted == [threw |-> FALSE, invalid |-> <<>>, valid |-> {}]

\* validateFrontmatter(content): what it throws, if it throws
ValidateFrontmatter(content) ==
  LET m == FrontmatterMatch(content)
      invalid == InvalidKeys(Split(m.yaml, NL))
  IN  IF ~m.found THEN Accepted
      ELSE IF Len(invalid) > 0
        THEN [threw |-> TRUE, invalid |-> invalid, valid |-> STANDARD_FIELDS]
      ELSE Accepted

\* line.match(/^name:\s*(.+)/): group 1, or nothing
NameMatch(line) ==
  IF Len(line) >= 3 /\ line[1] = "name" /\ line[2] = ":"
    THEN LET rest == SubSeq(line, 3, Len(line))
         IN  IF TrimStart(rest) # <<>> THEN TrimStart(rest) ELSE <<Last(rest)>>
    ELSE <<>>

\* extractName(content): the name, or the error thrown
ExtractName(content) ==
  LET m == FrontmatterMatch(content)
      lines == Split(m.yaml, NL)
      hits == {i \in 1..Len(lines) : NameMatch(lines[i]) # <<>>}
  IN  IF ~m.found THEN [threw |-> TRUE, error |-> "MissingFrontmatter", name |-> <<>>]
      ELSE IF hits = {}
        THEN [threw |-> TRUE, error |-> "MissingName", name |-> <<>>]
      ELSE LET first == CHOOSE i \in hits : \A j \in hits : i <= j
           IN  [threw |-> FALSE, error |-> "", name |-> Trim(NameMatch(lines[first]))]

(***************************************************************************)
(* Root documents given to validateFrontmatter                             *)
(***************************************************************************)
VARIABLES
  vdoc,        \* the document as written: its header lines and body lines
  vcontent,    \* its text
  vpc,         \* "idle" | "done"
  vres         \* the outcome of validateFrontmatter(vcontent)

valVars == <<vdoc, vcontent, vpc, vres>>

\* lines of the header block of a document
MaxHeaderLines == 3

\* lines after the header block
MaxBodyLines == 2

\* a header line: its text, and the top-level field it defines ("" if none)
HeaderLines ==
  { [text |-> <<"name", ":", SP, "demo">>, field |-> "name"],
    [text |-> <<"metadata", ":">>, field |-> "metadata"],
    [text |-> <<SP, SP, "key", ":", SP, "v">>, field |-> ""],
    [text |-> <<"tags", ":", SP, "v">>, field |-> "tags"],
    [text |-> <<"references", ":">>, field |-> "references"],
    [text |-> <<SP, SP, "-", SP, "api.md">>, field |-> ""],
    [text |-> <<"Tags", ":", SP, "v">>, field |-> "Tags"] }

BodyLines ==
  { <<"#", SP, "Content">>, <<"---">>, <<"note", ":", SP, "v">> }

TextOfLines(lines) == [i \in 1..Len(lines) |-> lines[i].text]

\* the text of a document: "---", the header lines, "---", the body lines
Render(doc) ==
  (IF doc.hasHeader
     THEN JoinWith(<<<<"---">>>> \o TextOfLines(doc.header) \o <<<<"---">>>>, <<NL>>)
          \o <<NL>>
     ELSE <<>>)
  \o JoinWith(doc.body, <<NL>>)

Documents ==
  { [hasHeader |-> h, header |-> hd, body |-> b] :
      h \in BOOLEAN,
      hd \in SeqsUpTo(HeaderLines, MaxHeaderLines),
      b \in SeqsUpTo(BodyLines, MaxBodyLines) }

ValInit ==
  /\ vdoc \in {d \in Documents : d.hasHeader \/ d.header = <<>>}
  /\ vcontent = Render(vdoc)
  /\ vpc = "idle"
  /\ vres = Accepted

ValIdle ==
  /\ vdoc = [hasHeader |-> FALSE, header |-> <<>>, body |-> <<>>]
  /\ vcontent = <<>>
  /\ vpc = "idle"
  /\ vres = Accepted

\* validateFrontmatter(vcontent)
Validate ==
  /\ vpc = "idle"
  /\ vpc' = "done"
  /\ vres' = ValidateFrontmatter(vcontent)
  /\ UNCHANGED <<vdoc, vcontent>>


(***************************************************************************)
(* pack.ts: buildFlatPathMap                                               *)
(***************************************************************************)
\* the number of leading components two paths share
CommonLen(a, b) ==
  CHOOSE k \in 0..Len(a) :
    /\ k <= Len(b)
    /\ \A i \in 1..k : a[i] = b[i]
    /\ (k = Len(a) \/ k = Len(b) \/ a[k + 1] # b[k + 1])

\* path.relative(from, to), for absolute paths, as components
Relative(from, to) ==
  LET k == CommonLen(from, to)
  IN  [i \in 1..(Len(from) - k) |-> ".."] \o SubSeq(to, k + 1, Len(to))

\* the text of a path given by its components
PathText(p) == JoinWith([i \in 1..Len(p) |-> <<p[i]>>], <<"/">>)

\* `${category}/${basename}`
FlatDest(category, file) == <<category, "/", Basename(file)>>

EmptyMap == [k \in {} |-> <<>>]

\* categories.get(file)
CategoryOf(categories, file) ==
  IF file \in DOMAIN categories THEN categories[file] ELSE "none"

\* a lookup that sees only the destination set last
DestIndexLast(destinations, dest) ==
  IF destinations # <<>> /\ destinations[Len(destinations)].dest = dest
    THEN Len(destinations)
    ELSE 0

\* destinations.get(dest): its place in the insertion order, or 0
DestIndex(destinations, dest) ==
  IF \E i \in 1..Len(destinations) : destinations[i].dest = dest
    THEN CHOOSE i \in 1..Len(destinations) : destinations[i].dest = dest
    ELSE 0

\* for (const file of files) { ... pathMap.set(relPath, dest); }
RECURSIVE FlatLoop(_, _, _, _)
FlatLoop(todo, skillPath, categories, acc) ==
  IF todo = <<>> THEN acc
  ELSE
    LET file == Head(todo)
        relPath == PathText(Relative(Dirname(skillPath), file))
        category == CategoryOf(categories, file)
        dest == FlatDest(category, file)
        at == DestIndex(acc.destinations, dest)
    IN  IF file = skillPath \/ category = "none"
          THEN FlatLoop(Tail(todo), skillPath, categories, acc)
          ELSE FlatLoop(Tail(todo), skillPath, categories,
                 [pathMap |-> (relPath :> dest) @@ acc.pathMap,
                  destinations |->
                    IF at > 0
                      THEN [acc.destinations EXCEPT
                              ![at].sources = Append(@, relPath)]
                      ELSE Append(acc.destinations,
                                  [dest |-> dest, sources |-> <<relPath>>])])

\* only the first destination with several sources
FirstCollision(destinations) ==
  LET hits == {i \in 1..Len(destinations) : Len(destinations[i].sources) > 1}
  IN  IF hits = {} THEN <<>>
      ELSE <<destinations[CHOOSE i \in hits : \A j \in hits : i <= j]>>

\* for (const [dest, sources] of destinations) if (sources.length > 1) ...
Collisions(destinations) ==
  SelectSeq(destinations, LAMBDA d : Len(d.sources) > 1)

\* buildFlatPathMap(files, skillPath, categories): the map returned, or
\* the collisions of the error thrown
BuildFlatPathMap(fileSeq, skillPath, categories) ==
  LET acc == FlatLoop(fileSeq, skillPath, categories,
                      [pathMap |-> EmptyMap, destinations |-> <<>>])
      collisions == Collisions(acc.destinations)
  IN  IF Len(collisions) > 0
        THEN [threw |-> TRUE, pathMap |-> EmptyMap, collisions |-> collisions]
        ELSE [threw |-> FALSE, pathMap |-> acc.pathMap, collisions |-> <<>>]

(***************************************************************************)
(* File sets given to buildFlatPathMap                                     *)
(***************************************************************************)
VARIABLES
  mfiles,      \* the files, in the insertion order of the Set
  mcats,       \* the category map; "none" for a file it has no entry for
  mpc,         \* "idle" | "done"
  mres         \* the outcome of buildFlatPathMap

mapVars == <<mfiles, mcats, mpc, mres>>

\* files in one file set
MaxMapFiles == 4

FlatUniverse ==
  { SkillPath,
    <<"r", "docs", "README.md">>, <<"r", "examples", "README.md">>,
    <<"r", "docs", "api.md">>, <<"r", "api.md">> }

Categories == {"scripts", "references", "assets"}

NoResult == [threw |-> FALSE, pathMap |-> EmptyMap, collisions |-> <<>>]

\* the sequences without repetition of at most n elements of S
FileSeqs(S, n) == {s \in SeqsUpTo(S, n) : \A i, j \in 1..Len(s) : s[i] = s[j] => i = j}

MapInit ==
  /\ mfiles \in FileSeqs(FlatUniverse, MaxMapFiles)
  /\ mcats \in [RangeOf(mfiles) -> Categories \cup {"none"}]
  /\ mpc = "idle"
  /\ mres = NoResult

MapIdle ==
  /\ mfiles = <<>>
  /\ mcats = EmptyMap
  /\ mpc = "idle"
  /\ mres = NoResult

\* buildFlatPathMap(files, skillPath, categories)
BuildMap ==
  /\ mpc = "idle"
  /\ mpc' = "done"
  /\ mres' = BuildFlatPathMap(mfiles, SkillPath, mcats)
  /\ UNCHANGED <<mfiles, mcats>>


(***************************************************************************)
(* rewrite.ts: rewriteSkillContent                                         *)
(***************************************************************************)
\* the first place at or after i where s holds c, or 0
FirstAt(s, c, i) ==
  IF \E j \in i..Len(s) : s[j] = c
    THEN CHOOSE j \in i..Len(s) : s[j] = c /\ \A k \in i..(j - 1) : s[k] # c
    ELSE 0

\* a match of /\[([^\]]*)\]\(([^)]+)\)/ that starts at place i
LinkMatchAt(s, i) ==
  LET close == IF i <= Len(s) /\ s[i] = "[" THEN FirstAt(s, "]", i + 1) ELSE 0
      paren == IF close > 0 /\ close < Len(s) /\ s[close + 1] = "("
                 THEN FirstAt(s, ")", close + 2) ELSE 0
  IN  IF paren > close + 2
        THEN [found |-> TRUE,
              text |-> SubSeq(s, i + 1, close - 1),
              href |-> SubSeq(s, close + 2, paren - 1),
              last |-> paren]
        ELSE [found |-> FALSE, text |-> <<>>, href |-> <<>>, last |-> 0]

\* raw.replace(/^\.\//, "")
StripDotSlash(raw) ==
  IF Len(raw) >= 2 /\ raw[1] = "." /\ raw[2] = "/"
    THEN SubSeq(raw, 3, Len(raw)) ELSE raw

\* lookup(raw) without the normalisation
LookupRaw(raw, pathMap) ==
  IF raw \in DOMAIN pathMap /\ pathMap[raw] # <<>>
    THEN [found |-> TRUE, path |-> pathMap[raw]]
    ELSE [found |-> FALSE, path |-> <<>>]

\* lookup(raw): pathMap.get(normalized), and whether it is truthy
Lookup(raw, pathMap) ==
  LET normalized == StripDotSlash(raw)
  IN  IF normalized \in DOMAIN pathMap /\ pathMap[normalized] # <<>>
        THEN [found |-> TRUE, path |-> pathMap[normalized]]
        ELSE [found |-> FALSE, path |-> <<>>]

\* no target is skipped
IsExcludedNever(href) == FALSE

\* /^https?:\/\//.test(href) || href.startsWith("#")
IsExcluded(href) == Head(href) \in {"http://", "https://", "#"}

\* const [pathPart, ...fragmentParts] = href.split("#")
PathPart(href) ==
  LET h == FirstAt(href, "#", 1)
  IN  IF h = 0 THEN href ELSE SubSeq(href, 1, h - 1)

\* fragmentParts.length ? "#" + fragmentParts.join("#") : ""
Fragment(href) ==
  LET h == FirstAt(href, "#", 1)
  IN  IF h = 0 THEN <<>> ELSE SubSeq(href, h, Len(href))

LinkText(text, href) == <<"[">> \o text \o <<"]", "(">> \o href \o <<")">>

\* the callback that gives back the normalised target when the lookup misses
LinkReplacementNormalizing(text, href, pathMap) ==
  IF IsExcluded(href) THEN LinkText(text, href)
  ELSE LET newPath == Lookup(PathPart(href), pathMap)
       IN  IF newPath.found
             THEN LinkText(text, newPath.path \o Fragment(href))
             ELSE LinkText(text, StripDotSlash(PathPart(href)) \o Fragment(href))

\* the callback of the link pass: (_match, text, href) => ...
LinkReplacement(text, href, pathMap) ==
  IF IsExcluded(href) THEN LinkText(text, href)
  ELSE LET newPath == Lookup(PathPart(href), pathMap)
       IN  IF newPath.found
             THEN LinkText(text, newPath.path \o Fragment(href))
             ELSE LinkText(text, href)

\* content.replace(/\[([^\]]*)\]\(([^)]+)\)/g, callback), from place i on
RECURSIVE ReplaceLinksFrom(_, _, _)
ReplaceLinksFrom(s, i, pathMap) ==
  IF i > Len(s) THEN <<>>
  ELSE LET m == LinkMatchAt(s, i)
       IN  IF m.found
             THEN LinkReplacement(m.text, m.href, pathMap)
                  \o ReplaceLinksFrom(s, m.last + 1, pathMap)
             ELSE <<s[i]>> \o ReplaceLinksFrom(s, i + 1, pathMap)

ReplaceLinks(s, pathMap) == ReplaceLinksFrom(s, 1, pathMap)

\* the symbol for ``` , the three backticks that open a code fence
Fence == "fence"

\* the last place of the run of whitespace that starts at place i of s
\* (i - 1 if there is none): \s+
SpaceRunEnd(s, i) ==
  CHOOSE j \in (i - 1)..Len(s) :
    /\ \A k \in i..j : IsSpace(s[k])
    /\ (j = Len(s) \/ ~IsSpace(s[j + 1]))

\* the last place of the run of non-whitespace that starts at place i of s
\* (i - 1 if there is none): \S* and \S+
NonSpaceRunEnd(s, i) ==
  CHOOSE j \in (i - 1)..Len(s) :
    /\ \A k \in i..j : ~IsSpace(s[k])
    /\ (j = Len(s) \/ IsSpace(s[j + 1]))

\* a match of /^(```\S*)\s+file=(\S+)/m that starts at place i
FileMatchAt(s, i) ==
  LET atLineStart == i = 1 \/ (i <= Len(s) /\ s[i - 1] = NL)
      langEnd == IF atLineStart /\ i <= Len(s) /\ s[i] = Fence
                   THEN NonSpaceRunEnd(s, i + 1) ELSE 0
      spaceEnd == IF langEnd > 0 THEN SpaceRunEnd(s, langEnd + 1) ELSE 0
      isFile == spaceEnd > langEnd /\ spaceEnd < Len(s) /\ s[spaceEnd + 1] = "file="
      pathEnd == IF isFile THEN NonSpaceRunEnd(s, spaceEnd + 2) ELSE 0
  IN  IF isFile /\ pathEnd > spaceEnd + 1
        THEN [found |-> TRUE,
              lang |-> SubSeq(s, i, langEnd),
              filePath |-> SubSeq(s, spaceEnd + 2, pathEnd),
              last |-> pathEnd]
        ELSE [found |-> FALSE, lang |-> <<>>, filePath |-> <<>>, last |-> 0]

\* the callback of the annotation pass: (_match, lang, filePath) => ...
FileReplacement(lang, filePath, pathMap) ==
  LET newPath == Lookup(filePath, pathMap)
  IN  lang \o <<SP, "file=">> \o (IF newPath.found THEN newPath.path ELSE filePath)

\* content.replace(/^(```\S*)\s+file=(\S+)/gm, callback), from place i on
RECURSIVE ReplaceFilesFrom(_, _, _)
ReplaceFilesFrom(s, i, pathMap) ==
  IF i > Len(s) THEN <<>>
  ELSE LET m == FileMatchAt(s, i)
       IN  IF m.found
             THEN FileReplacement(m.lang, m.filePath, pathMap)
                  \o ReplaceFilesFrom(s, m.last + 1, pathMap)
             ELSE <<s[i]>> \o ReplaceFilesFrom(s, i + 1, pathMap)

ReplaceFiles(s, pathMap) == ReplaceFilesFrom(s, 1, pathMap)

\* rewriteSkillContent(content, pathMap)
RewriteSkillContent(content, pathMap) ==
  ReplaceFiles(ReplaceLinks(content, pathMap), pathMap)

(***************************************************************************)
(* Texts and path maps given to rewriteSkillContent                        *)
(***************************************************************************)
VARIABLES
  rwIn,        \* the text given to the first run
  rwMap,       \* the PathMap
  rwMid,       \* the text after the link pass of the first run
  rwPrev,      \* the text given to the latest run
  rwOut,       \* the text the latest run returned
  rwRuns       \* the runs made

rwVars == <<rwIn, rwMap, rwMid, rwPrev, rwOut, rwRuns>>

\* items of a text
MaxItems == 2

\* runs of the rewriter on its own output
MaxRuns == 2

RwUniverse ==
  { <<"r", "docs", "api.md">>, <<"r", "api.md">>, <<"r", "references", "api.md">> }

\* a set as a sequence
RECURSIVE SeqOf(_)
SeqOf(S) ==
  IF S = {} THEN <<>>
  ELSE LET x == CHOOSE y \in S : TRUE IN <<x>> \o SeqOf(S \ {x})

\* the path maps buildFlatPathMap returns for the root document and some
\* files of RwUniverse, each a script or a reference document
RwMaps ==
  { BuildFlatPathMap(<<SkillPath>> \o SeqOf(DOMAIN c), SkillPath, c).pathMap :
      c \in { d \in UNION {[F -> {"scripts", "references"}] : F \in SUBSET RwUniverse} :
                ~BuildFlatPathMap(<<SkillPath>> \o SeqOf(DOMAIN d), SkillPath, d).threw } }

\* a PathMap that buildFlatPathMap does not build: its keys are a URL, an
\* anchor and the empty string
ForeignMaps ==
  { (<<"http://", "x">> :> <<"references", "/", "x">>)
    @@ (<<"#", "sec">> :> <<"references", "/", "sec">>)
    @@ (<<>> :> <<"references", "/", "index.md">>) }

LinkTargets ==
  { pre \o <<"docs", "/", "api.md">> \o frag :
      pre \in {<<>>, <<".", "/">>}, frag \in {<<>>, <<"#", "sec">>} }
  \cup { <<".", "/", ".", "/", "docs", "/", "api.md">>, <<"api.md">>,
         <<"unknown.md">>, <<"http://", "x">>, <<"#", "sec">> }

\* the pieces a text is made of: links, annotated fences, single symbols
Items ==
  { LinkText(<<"t">>, target) : target \in LinkTargets }
  \cup { <<Fence, "ts">> \o space \o <<"file=", "docs", "/", "api.md">> :
           space \in {<<SP>>, <<SP, SP>>, <<NL>>} }
  \cup { <<Fence, "ts", SP, "file=", "unknown.md">>,
         <<Fence, "ts", SP, "file=", ".", "/", "docs", "/", "api.md">>,
         <<Fence, "ts", SP, "file=", "docs", "/", "api.md", "#", "sec">>,
         <<NL>>, <<")">> }

RECURSIVE Concat(_)
Concat(ss) == IF ss = <<>> THEN <<>> ELSE Head(ss) \o Concat(Tail(ss))

Texts == {Concat(items) : items \in SeqsUpTo(Items, MaxItems)}

RwInit ==
  /\ rwIn \in Texts
  /\ rwMap \in RwMaps \cup ForeignMaps
  /\ rwMid = rwIn
  /\ rwPrev = rwIn
  /\ rwOut = rwIn
  /\ rwRuns = 0

RwIdle ==
  /\ rwIn = <<>>
  /\ rwMap = EmptyMap
  /\ rwMid = <<>>
  /\ rwPrev = <<>>
  /\ rwOut = <<>>
  /\ rwRuns = 0

\* rewriteSkillContent(rwOut, rwMap)
Rewrite ==
  /\ rwRuns < MaxRuns
  /\ rwRuns' = rwRuns + 1
  /\ rwPrev' = rwOut
  /\ rwOut' = RewriteSkillContent(rwOut, rwMap)
  /\ rwMid' = IF rwRuns = 0 THEN ReplaceLinks(rwOut, rwMap) ELSE rwMid
  /\ UNCHANGED <<rwIn, rwMap>>


(***************************************************************************)
(* The output location: directories and files on disk                      *)
(***************************************************************************)
\* the components of a relative path given as text; each name between two
\* "/" is one symbol
ComponentsOf(text) ==
  LET pieces == SelectSeq(Split(text, "/"), LAMBDA piece : piece # <<>>)
  IN  [i \in 1..Len(pieces) |-> pieces[i][1]]

\* path.join(base, text)
JoinText(base, text) == NormalizeFrom(<<>>, base \o ComponentsOf(text))

\* p is at or below directory d
IsUnder(p, d) == Len(p) >= Len(d) /\ SubSeq(p, 1, Len(d)) = d

\* fs.mkdirSync(p, { recursive: true })
MkdirP(dirs, p) == dirs \cup {SubSeq(p, 1, k) : k \in 1..Len(p)}

\* fs.existsSync(p) in the output location
OutExists(dirs, store, p) == p \in dirs \/ p \in DOMAIN store

\* fs.writeFileSync(p, data) and fs.copyFileSync(src, p)
WriteFile(store, p, data) == (p :> data) @@ store

\* fs.rmSync(p, { recursive: true }): the directories and the files left
RmDirs(dirs, p) == {d \in dirs : ~IsUnder(d, p)}

RmFiles(store, p) == [f \in {g \in DOMAIN store : ~IsUnder(g, p)} |-> store[f]]

\* the bytes of the source file f
SourceBytes(f) == <<"bytes of">> \o PathText(Relative(RootDir, f))

\* the bytes the archive writes to its output: the names of its entries
RECURSIVE EntryNames(_)
EntryNames(entries) ==
  IF entries = <<>> THEN <<>>
  ELSE <<"entry">> \o Head(entries).name \o EntryNames(Tail(entries))

ArchiveBytes(entries) == <<"zip">> \o EntryNames(entries)

\* `${name}.skill`, for a name of one symbol
DotSkill(name) ==
  CASE name = <<"demo">> -> <<"demo.skill">>
    [] name = <<".">> -> <<"..skill">>
    [] OTHER -> name \o <<".skill">>

(***************************************************************************)
(* pack.ts: pack, packPreserve, packFlat, packDist                         *)
(***************************************************************************)
VARIABLES
  pkLayout,    \* "preserve" | "flat" | "container" | "combined"
  pkDoc,       \* the root document as written
  pkFileSeq,   \* options.files, in the insertion order of the Set
  pkCats,      \* options.categories: whether given, and the map
  pkDisk0,     \* the output location before the call
  pkDirs,      \* the directories of the output location
  pkStore,     \* the files of the output location, with their bytes
  pkPc,        \* the statement the call is at, or how it settled
  pkError,     \* the error of a rejected call
  pkOut,       \* options.outputPath of the function that is running
  pkMap,       \* pathMap
  pkIdx,       \* the place in files of the running loop
  pkName,      \* name, in packDist
  pkStream,    \* output: "none" | "opening" | "open" | "closed" | "errored"
  pkEntries,   \* the entries given to the archive
  pkFinalized  \* archive.finalize() was called

packVars ==
  <<pkLayout, pkDoc, pkFileSeq, pkCats, pkDisk0, pkDirs, pkStore, pkPc, pkError,
    pkOut, pkMap, pkIdx, pkName, pkStream, pkEntries, pkFinalized>>

\* files in options.files
MaxPackFiles == 3

Layouts == {"preserve", "flat", "container", "combined"}

\* the last file lies outside the directory of the root document (a
\* reference ../lib/run.sh reaches it)
PackUniverse ==
  { SkillPath, <<"r", "docs", "api.md">>, <<"r", "api.md">>, <<"lib", "run.sh">> }

LinkLine == <<"[", "t", "]", "(", "docs", "/", "api.md", ")">>

NameLine == [text |-> <<"name", ":", SP, "demo">>, field |-> "name"]

\* a header line whose name value is the current-directory segment
DotNameLine == [text |-> <<"name", ":", SP, ".">>, field |-> "name"]

TagsLine == [text |-> <<"tags", ":", SP, "v">>, field |-> "tags"]

MetadataLine == [text |-> <<"metadata", ":">>, field |-> "metadata"]

\* root documents: a valid one, one with the field tags, one with tags and
\* no name, one with no name, one whose name is ".", one with no header
PackDocs ==
  { [hasHeader |-> TRUE, header |-> <<NameLine>>, body |-> <<LinkLine>>],
    [hasHeader |-> TRUE, header |-> <<NameLine, TagsLine>>, body |-> <<LinkLine>>],
    [hasHeader |-> TRUE, header |-> <<TagsLine>>, body |-> <<LinkLine>>],
    [hasHeader |-> TRUE, header |-> <<MetadataLine>>, body |-> <<LinkLine>>],
    [hasHeader |-> TRUE, header |-> <<DotNameLine>>, body |-> <<LinkLine>>],
    [hasHeader |-> FALSE, header |-> <<>>, body |-> <<LinkLine>>] }

\* fs.readFileSync(absoluteSkillPath, "utf-8")
SkillContent == Render(pkDoc)

NoCategories == [defined |-> FALSE, get |-> EmptyMap]

\* options.categories for the files of fileSeq: absent, or a map with at
\* most one entry for each file other than the root document
CategoryChoices(fileSeq) ==
  {NoCategories}
  \cup { [defined |-> TRUE, get |-> c] :
           c \in [RangeOf(fileSeq) \ {SkillPath} ->
                  {"scripts", "references", "assets", "none"}] }

OutDir == <<"out">>

\* options.outputPath
OutputPathOf(layout) ==
  CASE layout = "combined" -> OutDir
    [] layout = "container" -> <<"out", "demo.skill">>
    [] OTHER -> <<"out", "demo">>

\* the output location before the call: nothing, or the results of an
\* earlier run
Disks ==
  { [dirs |-> {}, files |-> EmptyMap],
    [dirs |-> {OutDir, <<"out", "demo">>, <<"out", "demo", "references">>},
     files |-> (<<"out", "demo", "SKILL.md">> :> <<"stale">>)
               @@ (<<"out", "demo", "references", "old.md">> :> <<"stale">>)
               @@ (<<"out", "demo.skill">> :> <<"stale">>)] }

FirstStatement(layout) ==
  CASE layout = "preserve" -> "preserve_mkdir"
    [] layout = "flat" -> "flat_map"
    [] layout = "container" -> "pack_map"
    [] OTHER -> "dist_name"

PackInit ==
  /\ pkLayout \in Layouts
  /\ pkDoc \in PackDocs
  /\ pkFileSeq \in FileSeqs(PackUniverse, MaxPackFiles)
  /\ pkCats \in CategoryChoices(pkFileSeq)
  /\ pkDisk0 \in Disks
  /\ pkDirs = pkDisk0.dirs
  /\ pkStore = pkDisk0.files
  /\ pkPc = FirstStatement(pkLayout)
  /\ pkError = ""
  /\ pkOut = OutputPathOf(pkLayout)
  /\ pkMap = EmptyMap
  /\ pkIdx = 1
  /\ pkName = <<>>
  /\ pkStream = "none"
  /\ pkEntries = <<>>
  /\ pkFinalized = FALSE

PackIdle ==
  /\ pkLayout = "none"
  /\ pkDoc = [hasHeader |-> FALSE, header |-> <<>>, body |-> <<>>]
  /\ pkFileSeq = <<>>
  /\ pkCats = NoCategories
  /\ pkDisk0 = [dirs |-> {}, files |-> EmptyMap]
  /\ pkDirs = {}
  /\ pkStore = EmptyMap
  /\ pkPc = "idle"
  /\ pkError = ""
  /\ pkOut = <<>>
  /\ pkMap = EmptyMap
  /\ pkIdx = 1
  /\ pkName = <<>>
  /\ pkStream = "none"
  /\ pkEntries = <<>>
  /\ pkFinalized = FALSE

\* the inputs of the call
pkInputs == <<pkLayout, pkDoc, pkFileSeq, pkCats, pkDisk0>>

\* a throw, or a rejection of the promise the call returned
Reject(error) ==
  /\ pkPc' = "rejected"
  /\ pkError' = error

\* flatDir and skillOutput of packDist
FlatDir == JoinText(OutputPathOf(pkLayout), pkName)

SkillOutput == JoinText(OutputPathOf(pkLayout), DotSkill(pkName))

\* ---- packPreserve ----
\* fs.mkdirSync(outputPath, { recursive: true })
PreserveMkdir ==
  /\ pkPc = "preserve_mkdir"
  /\ pkDirs' = MkdirP(pkDirs, pkOut)
  /\ pkIdx' = 1
  /\ pkPc' = "preserve_loop"
  /\ UNCHANGED <<pkInputs, pkStore, pkError, pkOut, pkMap, pkName, pkStream,
                 pkEntries, pkFinalized>>

\* one turn that copies every file to the top of the output directory
PreserveStepFlattening ==
  /\ pkPc = "preserve_loop"
  /\ pkIdx <= Len(pkFileSeq)
  /\ LET file == pkFileSeq[pkIdx]
         destPath == Join(pkOut, Basename(file))
         isRoot == file = SkillPath
         invalid == isRoot /\ ValidateFrontmatter(SkillContent).threw
     IN  /\ pkDirs' = MkdirP(pkDirs, Dirname(destPath))
         /\ IF invalid
              THEN /\ Reject("InvalidHeader")
                   /\ UNCHANGED <<pkStore, pkIdx>>
              ELSE /\ pkStore' = WriteFile(pkStore, destPath,
                                   IF isRoot THEN SkillContent ELSE SourceBytes(file))
                   /\ pkIdx' = pkIdx + 1
                   /\ UNCHANGED <<pkPc, pkError>>
  /\ UNCHANGED <<pkInputs, pkOut, pkMap, pkName, pkStream, pkEntries, pkFinalized>>

\* one turn of for (const file of files): the directory of the destination
\* is made, then the root document is validated and written, any other file
\* is copied
PreserveStep ==
  /\ pkPc = "preserve_loop"
  /\ pkIdx <= Len(pkFileSeq)
  /\ LET file == pkFileSeq[pkIdx]
         destPath == NormalizeFrom(<<>>, pkOut \o Relative(RootDir, file))
         isRoot == file = SkillPath
         invalid == isRoot /\ ValidateFrontmatter(SkillContent).threw
     IN  /\ pkDirs' = MkdirP(pkDirs, Dirname(destPath))
         /\ IF invalid
              THEN /\ Reject("InvalidHeader")
                   /\ UNCHANGED <<pkStore, pkIdx>>
              ELSE /\ pkStore' = WriteFile(pkStore, destPath,
                                   IF isRoot THEN SkillContent ELSE SourceBytes(file))
                   /\ pkIdx' = pkIdx + 1
                   /\ UNCHANGED <<pkPc, pkError>>
  /\ UNCHANGED <<pkInputs, pkOut, pkMap, pkName, pkStream, pkEntries, pkFinalized>>

\* the loop is over: packPreserve returns
PreserveReturn ==
  /\ pkPc = "preserve_loop"
  /\ pkIdx > Len(pkFileSeq)
  /\ pkPc' = "resolved"
  /\ UNCHANGED <<pkInputs, pkDirs, pkStore, pkError, pkOut, pkMap, pkIdx, pkName,
                 pkStream, pkEntries, pkFinalized>>

\* ---- packFlat ----
\* if (!categories) throw ...; const pathMap = buildFlatPathMap(...)
FlatBuildMap ==
  /\ pkPc = "flat_map"
  /\ LET built == BuildFlatPathMap(pkFileSeq, SkillPath, pkCats.get)
     IN  IF ~pkCats.defined
           THEN Reject("CategoriesRequired") /\ UNCHANGED pkMap
         ELSE IF built.threw
           THEN Reject("Collision") /\ UNCHANGED pkMap
         ELSE /\ pkMap' = built.pathMap
              /\ pkPc' = "flat_mkdir"
              /\ UNCHANGED pkError
  /\ UNCHANGED <<pkInputs, pkDirs, pkStore, pkOut, pkIdx, pkName, pkStream,
                 pkEntries, pkFinalized>>

\* fs.mkdirSync(outputPath, { recursive: true })
FlatMkdir ==
  /\ pkPc = "flat_mkdir"
  /\ pkDirs' = MkdirP(pkDirs, pkOut)
  /\ pkPc' = "flat_validate"
  /\ UNCHANGED <<pkInputs, pkStore, pkError, pkOut, pkMap, pkIdx, pkName, pkStream,
                 pkEntries, pkFinalized>>

\* validateFrontmatter(skillContent)
FlatValidate ==
  /\ pkPc = "flat_validate"
  /\ IF ValidateFrontmatter(SkillContent).threw
       THEN Reject("InvalidHeader")
       ELSE pkPc' = "flat_write" /\ UNCHANGED pkError
  /\ UNCHANGED <<pkInputs, pkDirs, pkStore, pkOut, pkMap, pkIdx, pkName, pkStream,
                 pkEntries, pkFinalized>>

\* the root document written as it was read
FlatWriteRaw ==
  /\ pkPc = "flat_write"
  /\ pkStore' = WriteFile(pkStore, Join(pkOut, "SKILL.md"), SkillContent)
  /\ pkIdx' = 1
  /\ pkPc' = "flat_loop"
  /\ UNCHANGED <<pkInputs, pkDirs, pkError, pkOut, pkMap, pkName, pkStream,
                 pkEntries, pkFinalized>>

\* fs.writeFileSync(path.join(outputPath, "SKILL.md"), rewritten)
FlatWrite ==
  /\ pkPc = "flat_write"
  /\ pkStore' = WriteFile(pkStore, Join(pkOut, "SKILL.md"),
                          RewriteSkillContent(SkillContent, pkMap))
  /\ pkIdx' = 1
  /\ pkPc' = "flat_loop"
  /\ UNCHANGED <<pkInputs, pkDirs, pkError, pkOut, pkMap, pkName, pkStream,
                 pkEntries, pkFinalized>>

\* one turn of for (const file of files): a file with a destination is
\* copied to it
FlatStep ==
  /\ pkPc = "flat_loop"
  /\ pkIdx <= Len(pkFileSeq)
  /\ LET file == pkFileSeq[pkIdx]
         relPath == PathText(Relative(RootDir, file))
         dest == LookupRaw(relPath, pkMap)
         destPath == JoinText(pkOut, dest.path)
     IN  IF file = SkillPath \/ ~dest.found
           THEN UNCHANGED <<pkDirs, pkStore>>
           ELSE /\ pkDirs' = MkdirP(pkDirs, Dirname(destPath))
                /\ pkStore' = WriteFile(pkStore, destPath, SourceBytes(file))
  /\ pkIdx' = pkIdx + 1
  /\ UNCHANGED <<pkInputs, pkPc, pkError, pkOut, pkMap, pkName, pkStream,
                 pkEntries, pkFinalized>>

\* the loop is over: packFlat returns, and with it packDist
FlatReturn ==
  /\ pkPc = "flat_loop"
  /\ pkIdx > Len(pkFileSeq)
  /\ pkPc' = "resolved"
  /\ UNCHANGED <<pkInputs, pkDirs, pkStore, pkError, pkOut, pkMap, pkIdx, pkName,
                 pkStream, pkEntries, pkFinalized>>

\* ---- pack ----
\* if (!categories) throw ...; const pathMap = buildFlatPathMap(...)
PackBuildMap ==
  /\ pkPc = "pack_map"
  /\ LET built == BuildFlatPathMap(pkFileSeq, SkillPath, pkCats.get)
     IN  IF ~pkCats.defined
           THEN Reject("CategoriesRequired") /\ UNCHANGED pkMap
         ELSE IF built.threw
           THEN Reject("Collision") /\ UNCHANGED pkMap
         ELSE /\ pkMap' = built.pathMap
              /\ pkPc' = "pack_stream"
              /\ UNCHANGED pkError
  /\ UNCHANGED <<pkInputs, pkDirs, pkStore, pkOut, pkIdx, pkName, pkStream,
                 pkEntries, pkFinalized>>

\* const output = fs.createWriteStream(outputPath); the file is opened later
PackCreateStream ==
  /\ pkPc = "pack_stream"
  /\ pkStream' = "opening"
  /\ pkEntries' = <<>>
  /\ pkFinalized' = FALSE
  /\ pkPc' = "pack_validate"
  /\ UNCHANGED <<pkInputs, pkDirs, pkStore, pkError, pkOut, pkMap, pkIdx, pkName>>

\* validateFrontmatter(skillContent), in the executor of the promise
PackValidate ==
  /\ pkPc = "pack_validate"
  /\ IF ValidateFrontmatter(SkillContent).threw
       THEN Reject("InvalidHeader")
       ELSE pkPc' = "pack_append" /\ UNCHANGED pkError
  /\ UNCHANGED <<pkInputs, pkDirs, pkStore, pkOut, pkMap, pkIdx, pkName, pkStream,
                 pkEntries, pkFinalized>>

\* the root document appended as it was read
PackAppendRaw ==
  /\ pkPc = "pack_append"
  /\ pkEntries' = Append(pkEntries, [name |-> <<"SKILL.md">>, data |-> SkillContent])
  /\ pkIdx' = 1
  /\ pkPc' = "pack_loop"
  /\ UNCHANGED <<pkInputs, pkDirs, pkStore, pkError, pkOut, pkMap, pkName, pkStream,
                 pkFinalized>>

\* archive.append(rewritten, { name: "SKILL.md" })
PackAppend ==
  /\ pkPc = "pack_append"
  /\ pkEntries' = Append(pkEntries,
                    [name |-> <<"SKILL.md">>,
                     data |-> RewriteSkillContent(SkillContent, pkMap)])
  /\ pkIdx' = 1
  /\ pkPc' = "pack_loop"
  /\ UNCHANGED <<pkInputs, pkDirs, pkStore, pkError, pkOut, pkMap, pkName, pkStream,
                 pkFinalized>>

\* one turn of for (const file of files): archive.file(file, { name: dest })
PackStep ==
  /\ pkPc = "pack_loop"
  /\ pkIdx <= Len(pkFileSeq)
  /\ LET file == pkFileSeq[pkIdx]
         relPath == PathText(Relative(RootDir, file))
         dest == LookupRaw(relPath, pkMap)
     IN  IF file = SkillPath \/ ~dest.found
           THEN UNCHANGED pkEntries
           ELSE pkEntries' = Append(pkEntries,
                               [name |-> dest.path, data |-> SourceBytes(file)])
  /\ pkIdx' = pkIdx + 1
  /\ UNCHANGED <<pkInputs, pkDirs, pkStore, pkPc, pkError, pkOut, pkMap, pkName,
                 pkStream, pkFinalized>>

\* the promise resolved when the archive is finalized
PackFinalizeResolving ==
  /\ pkPc = "pack_loop"
  /\ pkIdx > Len(pkFileSeq)
  /\ pkFinalized' = TRUE
  /\ IF pkLayout = "combined"
       THEN pkPc' = "flat_map" /\ pkOut' = FlatDir
       ELSE pkPc' = "resolved" /\ UNCHANGED pkOut
  /\ UNCHANGED <<pkInputs, pkDirs, pkStore, pkError, pkMap, pkIdx, pkName,
                 pkStream, pkEntries>>

\* archive.finalize(); the executor returns and the promise is pending
PackFinalize ==
  /\ pkPc = "pack_loop"
  /\ pkIdx > Len(pkFileSeq)
  /\ pkFinalized' = TRUE
  /\ pkPc' = "pack_pending"
  /\ UNCHANGED <<pkInputs, pkDirs, pkStore, pkError, pkOut, pkMap, pkIdx, pkName,
                 pkStream, pkEntries>>

\* no statement of the call is running: events can be delivered
Yielded == pkPc \in {"pack_pending", "rejected", "resolved"}

\* the output stream opens its file: the file is created or truncated; or
\* the open fails, and the "error" of output, which has no listener of the
\* caller, ends the process
StreamOpen ==
  /\ Yielded
  /\ pkStream = "opening"
  /\ IF Dirname(pkOut) \in pkDirs /\ pkOut \notin pkDirs
       THEN /\ pkStore' = WriteFile(pkStore, pkOut, <<>>)
            /\ pkStream' = "open"
            /\ UNCHANGED pkPc
       ELSE /\ pkStream' = "errored"
            /\ pkPc' = "crashed"
            /\ UNCHANGED pkStore
  /\ UNCHANGED <<pkInputs, pkDirs, pkError, pkOut, pkMap, pkIdx, pkName, pkEntries,
                 pkFinalized>>

\* the archive has written its entries and ended, output closes:
\* output.on("close", ...) resolves, and packDist goes on to packFlat
StreamClose ==
  /\ pkPc = "pack_pending"
  /\ pkStream = "open"
  /\ pkFinalized
  /\ pkStore' = WriteFile(pkStore, pkOut, ArchiveBytes(pkEntries))
  /\ pkStream' = "closed"
  /\ IF pkLayout = "combined"
       THEN pkPc' = "flat_map" /\ pkOut' = FlatDir
       ELSE pkPc' = "resolved" /\ UNCHANGED pkOut
  /\ UNCHANGED <<pkInputs, pkDirs, pkError, pkMap, pkIdx, pkName, pkEntries,
                 pkFinalized>>

\* archive.on("error", reject): the archive fails on a file it was given
\* (the file cannot be read), and the promise is rejected with that error
ArchiveError ==
  /\ pkPc = "pack_pending"
  /\ pkStream \in {"opening", "open"}
  /\ Len(pkEntries) > 1
  /\ Reject("ArchiveError")
  /\ UNCHANGED <<pkInputs, pkDirs, pkStore, pkOut, pkMap, pkIdx, pkName, pkStream,
                 pkEntries, pkFinalized>>

\* ---- packDist ----
\* the output directory made before the name is extracted
DistExtractNameAfterMkdir ==
  /\ pkPc = "dist_name"
  /\ pkDirs' = MkdirP(pkDirs, pkOut)
  /\ LET extracted == ExtractName(SkillContent)
     IN  IF extracted.threw
           THEN Reject(extracted.error) /\ UNCHANGED pkName
           ELSE /\ pkName' = extracted.name
                /\ pkPc' = "dist_clean"
                /\ UNCHANGED pkError
  /\ UNCHANGED <<pkInputs, pkStore, pkOut, pkMap, pkIdx, pkStream,
                 pkEntries, pkFinalized>>

\* const name = extractName(content)
DistExtractName ==
  /\ pkPc = "dist_name"
  /\ LET extracted == ExtractName(SkillContent)
     IN  IF extracted.threw
           THEN Reject(extracted.error) /\ UNCHANGED pkName
           ELSE /\ pkName' = extracted.name
                /\ pkPc' = "dist_clean"
                /\ UNCHANGED pkError
  /\ UNCHANGED <<pkInputs, pkDirs, pkStore, pkOut, pkMap, pkIdx, pkStream,
                 pkEntries, pkFinalized>>

\* the stale directory left as it is
DistCleanSkipped ==
  /\ pkPc = "dist_clean"
  /\ pkPc' = "dist_mkdir"
  /\ UNCHANGED <<pkInputs, pkDirs, pkStore, pkError, pkOut, pkMap, pkIdx, pkName,
                 pkStream, pkEntries, pkFinalized>>

\* if (fs.existsSync(flatDir)) fs.rmSync(flatDir, { recursive: true })
DistClean ==
  /\ pkPc = "dist_clean"
  /\ IF OutExists(pkDirs, pkStore, FlatDir)
       THEN /\ pkDirs' = RmDirs(pkDirs, FlatDir)
            /\ pkStore' = RmFiles(pkStore, FlatDir)
       ELSE UNCHANGED <<pkDirs, pkStore>>
  /\ pkPc' = "dist_mkdir"
  /\ UNCHANGED <<pkInputs, pkError, pkOut, pkMap, pkIdx, pkName, pkStream,
                 pkEntries, pkFinalized>>

\* fs.mkdirSync(outputPath, { recursive: true }); then pack is called with
\* skillOutput
DistMkdir ==
  /\ pkPc = "dist_mkdir"
  /\ pkDirs' = MkdirP(pkDirs, pkOut)
  /\ pkOut' = SkillOutput
  /\ pkPc' = "pack_map"
  /\ UNCHANGED <<pkInputs, pkStore, pkError, pkMap, pkIdx, pkName, pkStream,
                 pkEntries, pkFinalized>>

(***************************************************************************)
(* trace.ts: categorizeFiles                                               *)
(***************************************************************************)
VARIABLES
  cfiles,      \* files, in the insertion order of the Set
  cattrs,      \* of each file: stat.mode, and the encoding `file` reports
  cpc,         \* "idle" | "done"
  ccats        \* categories

catVars == <<cfiles, cattrs, cpc, ccats>>

\* files in one file set
MaxCatFiles == 3

\* stat.mode & 0o111: an execute bit of the owner, the group or the others
ExecBits(mode) ==
  (mode \div 64) % 2 = 1 \/ (mode \div 8) % 2 = 1 \/ mode % 2 = 1

\* [...files].filter((f) => f !== skillPath)
ToCheck(fileSeq, skillPath) == SelectSeq(fileSeq, LAMBDA f : f # skillPath)

\* mimeOutput.trimEnd().split("\n"): one line for each argument of `file`
MimeLines(toCheck, attrs) == [i \in 1..Len(toCheck) |-> attrs[toCheck[i]].encoding]

\* the category of toCheck[i], the content first
CategoryAtContentFirst(toCheck, mimeLines, attrs, i) ==
  IF mimeLines[i] = "binary" THEN "assets"
  ELSE IF ExecBits(attrs[toCheck[i]].mode) THEN "scripts"
  ELSE "references"

\* the category of toCheck[i]
CategoryAt(toCheck, mimeLines, attrs, i) ==
  IF ExecBits(attrs[toCheck[i]].mode) THEN "scripts"
  ELSE IF mimeLines[i] = "binary" THEN "assets"
  ELSE "references"

\* categorizeFiles without the filter: the root document is classified too
CategorizeAll(fileSeq, skillPath, attrs) ==
  LET mimeLines == MimeLines(fileSeq, attrs)
  IN  [f \in RangeOf(fileSeq) |->
         CategoryAt(fileSeq, mimeLines, attrs,
                    CHOOSE i \in 1..Len(fileSeq) : fileSeq[i] = f)]

\* categorizeFiles(files, skillPath)
CategorizeFiles(fileSeq, skillPath, attrs) ==
  LET toCheck == ToCheck(fileSeq, skillPath)
      mimeLines == MimeLines(toCheck, attrs)
  IN  [f \in RangeOf(toCheck) |->
         CategoryAt(toCheck, mimeLines, attrs,
                    CHOOSE i \in 1..Len(toCheck) : toCheck[i] = f)]

CatUniverse ==
  { SkillPath, <<"r", "docs", "api.md">>, <<"r", "run.sh">>, <<"r", "logo.png">> }

\* stat.mode: 0o100644, 0o100755, 0o100645 (only the others may execute)
Modes == {33188, 33261, 33189}

\* what `file --mime-encoding -b` prints
Encodings == {"binary", "us-ascii", "utf-8"}

FileAttrs == [mode : Modes, encoding : Encodings]

CatInit ==
  /\ cfiles \in FileSeqs(CatUniverse, MaxCatFiles)
  /\ cattrs \in [RangeOf(cfiles) -> FileAttrs]
  /\ cpc = "idle"
  /\ ccats = EmptyMap

CatIdle ==
  /\ cfiles = <<>>
  /\ cattrs = EmptyMap
  /\ cpc = "idle"
  /\ ccats = EmptyMap

\* categorizeFiles(files, absoluteSkillPath)
Categorize ==
  /\ cpc = "idle"
  /\ cpc' = "done"
  /\ ccats' = CategorizeFiles(cfiles, SkillPath, cattrs)
  /\ UNCHANGED <<cfiles, cattrs>>

\* the attributes of the traced files when traceReferences categorizes them:
\* plain text files; or c.sh executable, a.md binary and the root document
\* executable
TracedAttrs ==
  { [p \in Universe |-> [mode |-> 33188, encoding |-> "us-ascii"]],
    [p \in Universe |->
       IF p \in {SkillPath, <<"r", "d", "c.sh">>}
         THEN [mode |-> 33261, encoding |-> "us-ascii"]
       ELSE IF p = <<"r", "a.md">> THEN [mode |-> 33188, encoding |-> "binary"]
       ELSE [mode |-> 33188, encoding |-> "utf-8"]] }

\* const categories = categorizeFiles(files, absoluteSkillPath), at the end
\* of traceReferences
CategorizeTraced ==
  \E attrs \in TracedAttrs :
    /\ cfiles' = SeqOf(files)
    /\ cattrs' = [f \in files |-> attrs[f]]
    /\ ccats' = CategorizeFiles(SeqOf(files), SkillPath, attrs)
    /\ cpc' = "done"

\* buildFlatPathMap(files, skillPath, categories) on the TraceResult, the
\* Set iterated in insertion order
MapTraced ==
  /\ tpc = "done"
  /\ mpc = "idle"
  /\ mfiles' = added
  /\ mcats' = [f \in files |-> CategoryOf(ccats, f)]
  /\ mres' = BuildFlatPathMap(added, SkillPath, ccats)
  /\ mpc' = "done"

(***************************************************************************)
(* Specifications                                                          *)
(***************************************************************************)
vars == <<traceVars, valVars, mapVars, rwVars, packVars, catVars>>

TraceIdle ==
  /\ fs = [p \in Universe |-> "none"]
  /\ docs = [p \in MdPaths |-> <<>>]
  /\ tpc = "idle"
  /\ files = {}
  /\ added = <<>>
  /\ errors = <<>>
  /\ visited = {}
  /\ call = NoCall
  /\ stack = <<>>
  /\ reads = <<>>
  /\ steps = 0

\* one call of traceReferences on a file system
\* each step of the trace is counted
TraceTick ==
  steps' = steps + 1 /\ UNCHANGED <<valVars, mapVars, rwVars, packVars, catVars>>

NextTrace ==
  \/ TraceStart /\ TraceTick
  \/ TraceVisited /\ TraceTick
  \/ TraceMissing /\ TraceTick
  \/ TraceDirectory /\ TraceTick
  \/ TraceFile /\ TraceTick
  \/ StepEntry /\ TraceTick
  \/ StepRef /\ TraceTick
  \/ LoopEnd /\ TraceTick
  \/ /\ TraceReturn /\ CategorizeTraced /\ steps' = steps + 1
     /\ UNCHANGED <<valVars, mapVars, rwVars, packVars>>
  \/ MapTraced /\ UNCHANGED <<traceVars, valVars, rwVars, packVars, catVars>>

InitTrace == TraceInit /\ ValIdle /\ MapIdle /\ RwIdle /\ PackIdle /\ CatIdle

SpecTrace == InitTrace /\ [][NextTrace]_vars

\* one call of validateFrontmatter on a document
NextValidate == Validate /\ UNCHANGED <<traceVars, mapVars, rwVars, packVars, catVars>>

InitValidate == ValInit /\ TraceIdle /\ MapIdle /\ RwIdle /\ PackIdle /\ CatIdle

SpecValidate == InitValidate /\ [][NextValidate]_vars

\* one call of buildFlatPathMap on a file set and a category map
NextMap == BuildMap /\ UNCHANGED <<traceVars, valVars, rwVars, packVars, catVars>>

InitMap == MapInit /\ TraceIdle /\ ValIdle /\ RwIdle /\ PackIdle /\ CatIdle

SpecMap == InitMap /\ [][NextMap]_vars

\* runs of rewriteSkillContent on a text and then on its own output
NextRewrite == Rewrite /\ UNCHANGED <<traceVars, valVars, mapVars, packVars, catVars>>

InitRewrite == RwInit /\ TraceIdle /\ ValIdle /\ MapIdle /\ PackIdle /\ CatIdle

SpecRewrite == InitRewrite /\ [][NextRewrite]_vars

\* one call of categorizeFiles on a file set
NextCategorize ==
  Categorize /\ UNCHANGED <<traceVars, valVars, mapVars, rwVars, packVars>>

InitCategorize == CatInit /\ TraceIdle /\ ValIdle /\ MapIdle /\ RwIdle /\ PackIdle

SpecCategorize == InitCategorize /\ [][NextCategorize]_vars

\* one call of packPreserve, packFlat, pack or packDist
PackFrame == UNCHANGED <<traceVars, valVars, mapVars, rwVars, catVars>>

NextPack ==
  \/ PreserveMkdir /\ PackFrame
  \/ PreserveStep /\ PackFrame
  \/ PreserveReturn /\ PackFrame
  \/ FlatBuildMap /\ PackFrame
  \/ FlatMkdir /\ PackFrame
  \/ FlatValidate /\ PackFrame
  \/ FlatWrite /\ PackFrame
  \/ FlatStep /\ PackFrame
  \/ FlatReturn /\ PackFrame
  \/ PackBuildMap /\ PackFrame
  \/ PackCreateStream /\ PackFrame
  \/ PackValidate /\ PackFrame
  \/ PackAppend /\ PackFrame
  \/ PackStep /\ PackFrame
  \/ PackFinalize /\ PackFrame
  \/ StreamOpen /\ PackFrame
  \/ StreamClose /\ PackFrame
  \/ ArchiveError /\ PackFrame
  \/ DistExtractName /\ PackFrame
  \/ DistClean /\ PackFrame
  \/ DistMkdir /\ PackFrame

InitPack == PackInit /\ TraceIdle /\ ValIdle /\ MapIdle /\ RwIdle /\ CatIdle

SpecPack == InitPack /\ [][NextPack]_vars

(***************************************************************************)
(* Claims about the tracer                                                 *)
(***************************************************************************)
\* the existing paths one step from p: the entries of a directory, the
\* existing paths a markdown document references
Successors(p) ==
  IF ~ExistsSync(p) THEN {}
  ELSE IF IsDirectory(p) THEN {Join(p, n) : n \in DirNames(p)}
  ELSE IF EndsWithMd(p)
    THEN {q \in RangeOf(ExtractReferences(docs[p], Dirname(p))) : ExistsSync(q)}
  ELSE {}

RECURSIVE ClosureOf(_)
ClosureOf(S) ==
  LET T == S \cup UNION {Successors(p) : p \in S}
  IN  IF T = S THEN S ELSE ClosureOf(T)

Reachable == ClosureOf({SkillPath})

ReachableFiles == {p \in Reachable : ~IsDirectory(p)}

\* the paths that reachable documents reference and that do not exist
UnresolvedPaths ==
  UNION { {q \in RangeOf(ExtractReferences(docs[p], Dirname(p))) : ~ExistsSync(q)} :
            p \in {r \in ReachableFiles : EndsWithMd(r)} }

\* a file below a reachable directory that no document references by name
UnreferencedInDirectory(p) ==
  /\ p \in ReachableFiles
  /\ \A q \in MdPaths : p \notin RangeOf(ExtractReferences(docs[q], Dirname(q)))

\* C1: the file set traceReferences returns is exactly the set of files in
\* the closure of the root document under "a markdown document references
\* an existing path" and "a directory contains an entry": no reachable
\* file is omitted and no other file is included.
C1_FilesAreClosure == tpc = "done" => files = ReachableFiles

\* a finished trace through a nested directory, with a file that is in the
\* result only because its directory was referenced
C1_Witness ==
  /\ tpc = "done"
  /\ <<"r", "d", "e", "b.md">> \in files
  /\ UnreferencedInDirectory(<<"r", "d", "e", "b.md">>)
  /\ UnreferencedInDirectory(<<"r", "d", "c.sh">>)
  /\ files = ReachableFiles

\* every step of a trace is one of: a call of trace, an iteration of a loop,
\* the end of a loop, the start, the return
StepBound == 5 * Cardinality(Universe) + 4 * MaxRefs + 3

\* some document references itself, two documents reference each other, or
\* a document in a directory references that directory
Cyclic ==
  \E p \in ReachableFiles :
    /\ EndsWithMd(p)
    /\ \E q \in Successors(p) : p \in ClosureOf({q})

\* C2: traceReferences terminates on every finite reference graph, cyclic
\* or not: a trace that has not returned can always take a step, and it
\* takes no more than StepBound steps.
C2_Terminates ==
  /\ tpc # "done" => ENABLED NextTrace
  /\ steps <= StepBound

\* a finished trace of a cyclic graph in which a document in a directory
\* references that directory
C2_Witness ==
  /\ tpc = "done"
  /\ Cyclic
  /\ <<"r", "d", "b.md">> \in files
  /\ <<"r", "d">> \in Successors(<<"r", "d", "b.md">>)

NoDuplicates(s) == \A i, j \in 1..Len(s) : s[i] = s[j] => i = j

\* C3: a reference to a path that does not exist never aborts the trace:
\* the returned file set is the set reachable through existing paths, and
\* the error list holds each unresolved path exactly once and no path that
\* exists.
C3_MissingIsNotFatal ==
  tpc = "done" =>
    /\ files = ReachableFiles
    /\ RangeOf(errors) = UnresolvedPaths
    /\ NoDuplicates(errors)
    /\ \A i \in 1..Len(errors) : ~ExistsSync(errors[i])

\* a finished trace whose root document references a missing path and,
\* after it, a file that exists: the error is recorded and the file traced
C3_Witness ==
  /\ tpc = "done"
  /\ Len(docs[SkillPath]) = 2
  /\ ~ExistsSync(Resolve(RootDir, docs[SkillPath][1]))
  /\ ExistsSync(Resolve(RootDir, docs[SkillPath][2]))
  /\ Resolve(RootDir, docs[SkillPath][2]) # SkillPath
  /\ Resolve(RootDir, docs[SkillPath][2]) \in files
  /\ errors = <<Resolve(RootDir, docs[SkillPath][1])>>


(***************************************************************************)
(* Claims about validateFrontmatter                                        *)
(***************************************************************************)
\* the top-level field names of the header block of a document
TopLevelFields(doc) ==
  IF doc.hasHeader
    THEN {doc.header[i].field : i \in 1..Len(doc.header)} \ {""}
    ELSE {}

\* the keys an error names
NamedFields(res) == {res.invalid[i][1] : i \in 1..Len(res.invalid)}

\* C5: validateFrontmatter throws if and only if the document has a header
\* block with at least one top-level field name outside the allow-list; a
\* document with no header block or an empty header is accepted, nested
\* keys are not checked, and the error lists every offending top-level
\* field name together with the allow-list.
C5_ThrowsIffDisallowedField ==
  vpc = "done" =>
    LET offending == TopLevelFields(vdoc) \ STANDARD_FIELDS
    IN  /\ vres.threw <=> offending # {}
        /\ vres.threw =>
             /\ \A i \in 1..Len(vres.invalid) : Len(vres.invalid[i]) = 1
             /\ NamedFields(vres) = offending
             /\ vres.valid = STANDARD_FIELDS

(***************************************************************************)
(* Claims about buildFlatPathMap                                           *)
(***************************************************************************)
\* the files that get a destination: all but the root document and the
\* files without a category
Mapped == {f \in RangeOf(mfiles) : f # SkillPath /\ mcats[f] # "none"}

SourceOf(f) == PathText(Relative(RootDir, f))

\* the source paths that flatten to destination d
SourcesOf(d) == {SourceOf(f) : f \in {g \in Mapped : FlatDest(mcats[g], g) = d}}

Colliding == {d \in {FlatDest(mcats[f], f) : f \in Mapped} : Cardinality(SourcesOf(d)) > 1}

\* C4: buildFlatPathMap either returns a map in which no two distinct
\* source paths have the same destination, or it throws and returns no
\* map; the error then names every colliding destination and, for each,
\* every source path that maps to it.
C4_CollisionFreeOrFails ==
  mpc = "done" =>
    IF mres.threw
      THEN /\ mres.pathMap = EmptyMap
           /\ Colliding # {}
           /\ {mres.collisions[i].dest : i \in 1..Len(mres.collisions)} = Colliding
           /\ \A i \in 1..Len(mres.collisions) :
                RangeOf(mres.collisions[i].sources) = SourcesOf(mres.collisions[i].dest)
      ELSE /\ Colliding = {}
           /\ DOMAIN mres.pathMap = {SourceOf(f) : f \in Mapped}
           /\ \A k1, k2 \in DOMAIN mres.pathMap :
                mres.pathMap[k1] = mres.pathMap[k2] => k1 = k2

\* a call that throws with two colliding destinations
C4_Witness ==
  /\ mpc = "done"
  /\ mres.threw
  /\ Cardinality(Colliding) = 2
  /\ Len(mres.collisions) = 2

(***************************************************************************)
(* Claims about rewriteSkillContent                                        *)
(***************************************************************************)
\* the link targets of a text, in order
RECURSIVE LinkHrefsFrom(_, _)
LinkHrefsFrom(s, i) ==
  IF i > Len(s) THEN <<>>
  ELSE LET m == LinkMatchAt(s, i)
       IN  IF m.found THEN <<m.href>> \o LinkHrefsFrom(s, m.last + 1)
           ELSE LinkHrefsFrom(s, i + 1)

LinkHrefs(s) == LinkHrefsFrom(s, 1)

\* the file= targets of the annotated fences of a text, in order
RECURSIVE FilePathsFrom(_, _)
FilePathsFrom(s, i) ==
  IF i > Len(s) THEN <<>>
  ELSE LET m == FileMatchAt(s, i)
       IN  IF m.found THEN <<m.filePath>> \o FilePathsFrom(s, m.last + 1)
           ELSE FilePathsFrom(s, i + 1)

FilePaths(s) == FilePathsFrom(s, 1)

\* a target resolves in the map: without a leading "./" it is a key
Resolves(target) == StripDotSlash(target) \in DOMAIN rwMap

\* no reference of text s resolves in the map
NothingResolves(s) ==
  /\ \A i \in 1..Len(LinkHrefs(s)) :
       LET href == LinkHrefs(s)[i]
       IN  IsExcluded(href) \/ ~Resolves(PathPart(href))
  /\ \A i \in 1..Len(FilePaths(s)) : ~Resolves(FilePaths(s)[i])

\* C8: rewriteSkillContent replaces the references that resolve in the
\* PathMap and leaves every other character unchanged: for a text with no
\* reference that resolves in the map, the output is identical to the
\* input.
C8_UnresolvedTextUnchanged ==
  (rwRuns = 1 /\ NothingResolves(rwIn)) => rwOut = rwIn

\* C9, as claimed: for every text and every PathMap built by
\* buildFlatPathMap, rewriting the rewritten text again changes nothing.
C9_Idempotent == rwRuns = 2 => rwOut = rwPrev

\* no destination of the map is itself a source path that the map sends
\* somewhere else
NoChain(pathMap) ==
  \A k \in DOMAIN pathMap :
    pathMap[k] \in DOMAIN pathMap => pathMap[pathMap[k]] = pathMap[k]

\* C9, amended: rewriting is idempotent on its own output for every
\* PathMap built by buildFlatPathMap in which no destination is also a
\* source path mapped to a different destination.
C9_IdempotentWithoutChain ==
  (rwRuns = 2 /\ NoChain(rwMap)) => rwOut = rwPrev

\* a second run, on a text the first run changed, that changes nothing
C9_Witness ==
  /\ rwRuns = 2
  /\ NoChain(rwMap)
  /\ rwPrev # rwIn
  /\ rwOut = rwPrev

\* the target the link pass must write for target href
ExpectedHref(href) ==
  IF IsExcluded(href) THEN href
  ELSE LET h == FirstAt(href, "#", 1)
           path == IF h = 0 THEN href ELSE SubSeq(href, 1, h - 1)
           frag == IF h = 0 THEN <<>> ELSE SubSeq(href, h, Len(href))
           key == IF Len(path) >= 2 /\ SubSeq(path, 1, 2) = <<".", "/">>
                    THEN SubSeq(path, 3, Len(path)) ELSE path
       IN  IF key \in DOMAIN rwMap THEN rwMap[key] \o frag ELSE path \o frag

ApiLink(target) == LinkText(<<"t">>, target)

\* C10: for an inline link target the rewriter strips a leading "./" and
\* splits off the trailing #fragment before the lookup, and reattaches the
\* fragment unchanged to the substituted path, or to the original path when
\* the lookup misses; with docs/api.md mapped to references/api.md, both
\* docs/api.md#sec and ./docs/api.md#sec become references/api.md#sec.
C10_NormalizeLookupReattach ==
  rwRuns >= 1 =>
    /\ Len(LinkHrefs(rwMid)) = Len(LinkHrefs(rwIn))
    /\ \A i \in 1..Len(LinkHrefs(rwIn)) :
         LinkHrefs(rwMid)[i] = ExpectedHref(LinkHrefs(rwIn)[i])
    /\ ( /\ <<"docs", "/", "api.md">> \in DOMAIN rwMap
         /\ rwMap[<<"docs", "/", "api.md">>] = <<"references", "/", "api.md">>
         /\ rwIn \in { ApiLink(<<"docs", "/", "api.md", "#", "sec">>),
                       ApiLink(<<".", "/", "docs", "/", "api.md", "#", "sec">>) } )
       => rwMid = ApiLink(<<"references", "/", "api.md", "#", "sec">>)

\* the link ./docs/api.md#sec rewritten to references/api.md#sec
C10_Witness ==
  /\ rwRuns = 1
  /\ rwIn = ApiLink(<<".", "/", "docs", "/", "api.md", "#", "sec">>)
  /\ <<"docs", "/", "api.md">> \in DOMAIN rwMap
  /\ rwMap[<<"docs", "/", "api.md">>] = <<"references", "/", "api.md">>
  /\ rwOut = ApiLink(<<"references", "/", "api.md", "#", "sec">>)

(***************************************************************************)
(* Claims about packaging                                                  *)
(***************************************************************************)
\* the step in which the call fails with the given error
FailsWith(error) == pkPc # "rejected" /\ pkPc' = "rejected" /\ pkError' = error

\* C6: when packaging, in any layout, aborts with the invalid-header error,
\* no output file or directory has been created at the moment it aborts:
\* every directory and every file of the output location was there before
\* the call.
C6_NothingCreatedOnInvalidHeader ==
  [][FailsWith("InvalidHeader") =>
       /\ pkDirs' \subseteq pkDisk0.dirs
       /\ DOMAIN pkStore' \subseteq DOMAIN pkDisk0.files]_vars

\* C7: in every flattening mode (flat, container, combined), at the moment
\* the construction of the PathMap fails with a destination collision the
\* call has created, modified and removed nothing in the output location.
C7_NothingTouchedOnCollision ==
  [][(pkLayout \in {"flat", "container", "combined"} /\ FailsWith("Collision")) =>
       /\ pkDirs' = pkDisk0.dirs
       /\ pkStore' = pkDisk0.files]_vars

\* a URL with the scheme http or https, or a target that is only a fragment
IsUrlOrAnchor(href) == href # <<>> /\ href[1] \in {"http://", "https://", "#"}

\* C11: a link target with an external URL scheme (http://, https://) or
\* that is purely a same-document fragment (starts with #) is never
\* rewritten, whatever keys the PathMap contains: after the link pass and in
\* the returned text it is exactly as authored.
C11_UrlsAndAnchorsUntouched ==
  rwRuns = 1 =>
    /\ Len(LinkHrefs(rwMid)) = Len(LinkHrefs(rwIn))
    /\ Len(LinkHrefs(rwOut)) = Len(LinkHrefs(rwIn))
    /\ \A i \in 1..Len(LinkHrefs(rwIn)) :
         IsUrlOrAnchor(LinkHrefs(rwIn)[i]) =>
           /\ LinkHrefs(rwMid)[i] = LinkHrefs(rwIn)[i]
           /\ LinkHrefs(rwOut)[i] = LinkHrefs(rwIn)[i]

\* a URL and an anchor, both keys of the map (the anchor's path part, the
\* empty string, too), returned as authored
C11_Witness ==
  /\ rwRuns = 1
  /\ rwMap \in ForeignMaps
  /\ LinkHrefs(rwIn) = << <<"http://", "x">>, <<"#", "sec">> >>
  /\ LinkHrefs(rwOut) = LinkHrefs(rwIn)

(***************************************************************************)
(* Claims about categorizeFiles                                            *)
(***************************************************************************)
\* C12: in every TraceResult the category map is a total function on the
\* traced files other than the root document, each with exactly one of
\* scripts, references, assets, and the root document is never a key of it,
\* whatever its own permissions or content.
C12_CategoriesTotalWithoutRoot ==
  tpc = "done" =>
    /\ DOMAIN ccats = files \ {SkillPath}
    /\ \A f \in DOMAIN ccats : ccats[f] \in Categories
    /\ SkillPath \notin DOMAIN ccats

\* a TraceResult with several files, whose root document is executable
C12_Witness ==
  /\ tpc = "done"
  /\ Cardinality(files) >= 3
  /\ ExecBits(cattrs[SkillPath].mode)
  /\ DOMAIN ccats = files \ {SkillPath}

\* the mode has an execute bit: 0o100, 0o010 or 0o001
HasExecuteBit(mode) == \E k \in {0, 3, 6} : (mode \div (2 ^ k)) % 2 = 1

\* C13: classification follows a strict priority: a file with any
\* executable permission bit is a script whatever the content classifier
\* reports; otherwise a file the classifier reports as binary is an asset;
\* otherwise the file is a reference document.
C13_StrictPriority ==
  cpc = "done" =>
    \A f \in DOMAIN ccats :
      ccats[f] = IF HasExecuteBit(cattrs[f].mode) THEN "scripts"
                 ELSE IF cattrs[f].encoding = "binary" THEN "assets"
                 ELSE "references"

\* three files after the root document: an executable binary file, a binary
\* file, an executable text file that only the others may execute
C13_Witness ==
  /\ cpc = "done"
  /\ tpc = "idle"
  /\ Len(cfiles) = 3
  /\ cfiles[2] = SkillPath
  /\ cattrs[cfiles[1]] = [mode |-> 33261, encoding |-> "binary"]
  /\ cattrs[cfiles[3]] = [mode |-> 33188, encoding |-> "binary"]
  /\ ccats[cfiles[1]] = "scripts"
  /\ ccats[cfiles[3]] = "assets"

(***************************************************************************)
(* Claims about the written layouts                                        *)
(***************************************************************************)
\* the files of the call other than the root document
NonRootFiles == RangeOf(pkFileSeq) \ {SkillPath}

\* the categories are those of a TraceResult: one for every non-root file
TracedCategories ==
  /\ pkCats.defined
  /\ \A f \in NonRootFiles : pkCats.get[f] \in Categories

\* the non-root files that have a category
Categorized == {f \in NonRootFiles : CategoryOf(pkCats.get, f) \in Categories}

\* the PathMap of the call: root-relative path to "<category>/<basename>"
PathMapOf ==
  [k \in {SourceOf(f) : f \in Categorized} |->
     LET f == CHOOSE g \in Categorized : SourceOf(g) = k
     IN  FlatDest(pkCats.get[f], f)]

\* where a non-root file belongs below the flat directory dir
FlatPlace(dir, f) == dir \o <<pkCats.get[f], Basename(f)>>

FlatSucceeded == pkLayout = "flat" /\ pkPc = "resolved" /\ TracedCategories

\* the files and the root document are where the flat layout has them
FlatFilesWritten(dir) ==
  /\ \A f \in NonRootFiles :
       /\ FlatPlace(dir, f) \in DOMAIN pkStore
       /\ pkStore[FlatPlace(dir, f)] = SourceBytes(f)
  /\ Join(dir, "SKILL.md") \in DOMAIN pkStore
  /\ pkStore[Join(dir, "SKILL.md")] = RewriteSkillContent(SkillContent, PathMapOf)

PreserveSucceeded == pkLayout = "preserve" /\ pkPc = "resolved"

IsRootEntry(entry) ==
  /\ entry.name = <<"SKILL.md">>
  /\ ~ValidateFrontmatter(SkillContent).threw
  /\ entry.data = RewriteSkillContent(SkillContent, PathMapOf)

\* the entry is a source file under the name of its flat destination
IsFileEntry(entry) ==
  \E f \in Categorized :
    /\ entry.name = FlatDest(pkCats.get[f], f)
    /\ entry.data = SourceBytes(f)

\* C16: in a container write the entry of the root document is the
\* validated and rewritten content, appended only after validation
\* succeeded and before any other entry; every other entry is the
\* byte-identical source file, named by its PathMap destination; the
\* written archive holds the root document and every file of the PathMap.
C16_RootEntryRewritten ==
  /\ \A i \in 1..Len(pkEntries) :
       IF i = 1 THEN IsRootEntry(pkEntries[i]) ELSE IsFileEntry(pkEntries[i])
  /\ pkStream = "closed" =>
       /\ Len(pkEntries) = 1 + Cardinality(Categorized)
       /\ \A f \in Categorized :
            \E i \in 2..Len(pkEntries) : pkEntries[i].name = FlatDest(pkCats.get[f], f)
       /\ pkStore[IF pkLayout = "combined" THEN SkillOutput ELSE OutputPathOf(pkLayout)]
            = ArchiveBytes(pkEntries)

\* a written archive whose root entry differs from the source and that has
\* the entries of two files
C16_Witness ==
  /\ pkLayout = "container"
  /\ pkStream = "closed"
  /\ Len(pkEntries) = 3
  /\ pkEntries[1].data # SkillContent
  /\ pkEntries[2].data = SourceBytes(<<"r", "docs", "api.md">>)
  /\ pkEntries[2].name = <<"scripts", "/", "api.md">>

\* the root document has no header, or its header has no name field
HasNoName ==
  \/ ~pkDoc.hasHeader
  \/ \A i \in 1..Len(pkDoc.header) : pkDoc.header[i].field # "name"

FlatStatements == {"flat_map", "flat_mkdir", "flat_validate", "flat_write", "flat_loop"}

\* the completion signal of the output stream has arrived: every entry was
\* given to the archive, the archive was finalized, the stream is closed and
\* the container file holds the archive
ContainerComplete(container) ==
  /\ pkStream = "closed"
  /\ pkFinalized
  /\ Len(pkEntries) = 1 + Cardinality(Categorized)
  /\ container \in DOMAIN pkStore
  /\ pkStore[container] = ArchiveBytes(pkEntries)

\* C18: the container packaging call resolves only after the completion
\* signal of the output stream has arrived; in a combined run the
\* flat-layout write starts only after the container write has resolved, so
\* nothing is in the flat directory while the stream is not closed.
C18_ResolvesAfterClose ==
  /\ (pkLayout = "container" /\ pkPc = "resolved") =>
       ContainerComplete(OutputPathOf(pkLayout))
  /\ (pkLayout = "combined" /\ pkPc \in FlatStatements \cup {"resolved"}) =>
       ContainerComplete(SkillOutput)
  /\ (pkLayout = "combined" /\ pkStream \in {"opening", "open"}) =>
       /\ pkPc \notin FlatStatements
       /\ \A p \in DOMAIN pkStore : IsUnder(p, FlatDir) => p = SkillOutput

\* a combined run is about to write the flat directory: the container is
\* complete and the flat directory still empty
C18_Witness ==
  /\ pkLayout = "combined"
  /\ pkPc = "flat_write"
  /\ ContainerComplete(SkillOutput)
  /\ Len(pkEntries) = 3
  /\ \A p \in DOMAIN pkStore : ~IsUnder(p, FlatDir)

(***************************************************************************)
(* Claims about repeated references                                        *)
(***************************************************************************)
\* C19: during one trace each absolute path is processed at most once: no
\* document is read and reference-extracted more than once, including a
\* markdown file that is both contained in a referenced directory and
\* referenced by name, or that references itself.
C19_EachPathProcessedOnce == NoDuplicates(reads)

\* the files the flat layout of the call has below dir
FlatFilesOf(dir) == {Join(dir, "SKILL.md")} \cup {FlatPlace(dir, f) : f \in Categorized}

EndedUnsettled == pkPc = "crashed" /\ pkError = ""

\* C21: every container packaging call eventually settles: it resolves
\* after the output stream closed, or it rejects with the underlying error
\* when the streaming write fails (an archive error, or an error of the
\* output stream such as an output path that cannot be written); it never
\* stays pending: no call ends with its promise unsettled.
C21_NeverEndsUnsettled ==
  pkLayout = "container" => ~EndedUnsettled

(***************************************************************************)
(* Claims about iteration order                                            *)
(***************************************************************************)
\* the place of p in the sequence s, or 0
PlaceIn(s, p) ==
  IF p \in RangeOf(s) THEN CHOOSE i \in 1..Len(s) : s[i] = p ELSE 0

\* the collisions of an outcome, without the order of their report
CollisionSet(res) ==
  { [dest |-> res.collisions[i].dest, sources |-> RangeOf(res.collisions[i].sources)] :
      i \in 1..Len(res.collisions) }

\* C22: the traced file set, the set of missing-reference errors and the
\* outcome of collision detection (success with the map, or the set of
\* colliding destinations with their sources) are functions of the file
\* system and of the sets of references alone: they are the same under every
\* order of directory entries and every order in which references are
\* visited.
C22_OrderIndependent ==
  mpc = "done" =>
    /\ files = ReachableFiles
    /\ RangeOf(added) = ReachableFiles
    /\ RangeOf(errors) = UnresolvedPaths
    /\ mres.threw <=> Colliding # {}
    /\ mres.threw =>
         CollisionSet(mres) = {[dest |-> d, sources |-> SourcesOf(d)] : d \in Colliding}
    /\ ~mres.threw =>
         /\ DOMAIN mres.pathMap = {SourceOf(f) : f \in Mapped}
         /\ \A f \in Mapped : mres.pathMap[SourceOf(f)] = FlatDest(mcats[f], f)

\* a finished trace of a directory listed with the nested directory first:
\* the nested b.md was added before its namesake, a reference is missing,
\* and the two files collide
C22_Witness ==
  /\ mpc = "done"
  /\ PlaceIn(added, <<"r", "d", "e", "b.md">>) > 0
  /\ PlaceIn(added, <<"r", "d", "e", "b.md">>) < PlaceIn(added, <<"r", "d", "b.md">>)
  /\ PlaceIn(added, <<"r", "d", "b.md">>) < PlaceIn(added, <<"r", "d", "c.sh">>)
  /\ Len(errors) = 1
  /\ mres.threw
  /\ Colliding = {<<"references", "/", "b.md">>}

(***************************************************************************)
(* Claims about the resolution of references                               *)
(***************************************************************************)
\* the references of document p, each resolved against the directory of p
ResolvedFromOwnDirectory(p) ==
  [i \in 1..Len(docs[p]) |-> Resolve(Dirname(p), docs[p][i])]

\* C23: each reference extracted from a markdown document is resolved
\* relative to the directory of the document that contains it, not the
\* directory of the root document, and only markdown documents have their
\* references extracted and followed: a file read is a markdown file of the
\* result, the references followed after the read are its own references
\* resolved against its own directory, and any other file is added without
\* being read.
C23_ResolvedFromOwnDirectory ==
  [][/\ \A i \in 1..Len(reads') : EndsWithMd(reads'[i])
     /\ reads' # reads =>
          LET p == reads'[Len(reads')]
          IN  /\ p \in files'
              /\ stack' # <<>>
              /\ Last(stack').kind = "refs"
              /\ Last(stack').todo = ResolvedFromOwnDirectory(p)
     /\ \A f \in files' \ files : ~EndsWithMd(f) => reads' = reads]_vars

\* a finished trace in which the root document references directory d and
\* a document of d references the document one directory up: it is found
\* from d (from the root directory it does not exist), and the script of d
\* was added without being read
C23_Witness ==
  /\ tpc = "done"
  /\ docs[SkillPath] = << <<"d">> >>
  /\ docs[<<"r", "d", "b.md">>] = << <<"..", "a.md">> >>
  /\ <<"r", "d", "b.md">> \in RangeOf(reads)
  /\ <<"r", "a.md">> \in RangeOf(reads)
  /\ <<"r", "d", "c.sh">> \in files
  /\ <<"r", "d", "c.sh">> \notin RangeOf(reads)
  /\ errors = <<>>

(***************************************************************************)
(* Claims about the annotation pass                                        *)
(***************************************************************************)
\* C24: the annotation pass uses the same normalize, lookup and
\* reattach-fragment logic as the link pass: in a text without links, the
\* target of every file= annotation is replaced by what the link pass
\* writes for the same target string, also when the target carries a
\* #fragment, and a target that misses the map stays as authored.
C24_AnnotationPassLikeLinkPass ==
  (rwRuns = 1 /\ LinkHrefs(rwIn) = <<>>) =>
    /\ Len(FilePaths(rwOut)) = Len(FilePaths(rwIn))
    /\ \A i \in 1..Len(FilePaths(rwIn)) :
         FilePaths(rwOut)[i] = ExpectedHref(FilePaths(rwIn)[i])

(***************************************************************************)
(* Claims about where packaging writes                                     *)
(***************************************************************************)
\* C25: preserve-layout packaging writes only inside the requested output
\* directory: every file it writes, also for a traced file that lies
\* outside the directory of the root document, is below the output
\* directory, and every directory it makes is the output directory, one
\* below it or one above it.
C25_PreserveWritesInsideOutput ==
  pkLayout = "preserve" =>
    /\ \A p \in DOMAIN pkStore :
         (p \notin DOMAIN pkDisk0.files \/ pkStore[p] # pkDisk0.files[p]) =>
           IsUnder(p, pkOut)
    /\ \A d \in pkDirs \ pkDisk0.dirs : IsUnder(d, pkOut) \/ IsUnder(pkOut, d)

StrictlyUnder(p, d) == IsUnder(p, d) /\ p # d

\* C26: in a combined run every directory that was removed and the container
\* file that is created are strict descendants of the requested output
\* directory, whatever the value of the header's name field.
C26_CombinedStaysBelowOutput ==
  pkLayout = "combined" =>
    /\ \A d \in pkDisk0.dirs \ pkDirs : StrictlyUnder(d, OutDir)
    /\ pkStream # "none" => StrictlyUnder(SkillOutput, OutDir)

\* link.href && !link.href.startsWith("http") && !link.href.startsWith("#")
IsLocalReference(href) ==
  /\ href # <<>>
  /\ href[1] \notin {"http://", "https://", "#"}

\* path.resolve(basePath, link.href.split("#")[0]) for a link of the root
\* document
TracedFile(href) == Resolve(RootDir, ComponentsOf(PathPart(href)))

\* the key buildFlatPathMap gives the file a link of the root document
\* resolves to
TracedKey(href) == PathText(Relative(RootDir, TracedFile(href)))

\* C27: after the root document is rewritten with the PathMap built from
\* the traced files, every inline link that the tracer resolved to a file
\* of the map points to the flat destination of that file (with its
\* fragment), however the link was written.
C27_ResolvedLinksPointToDestination ==
  (rwRuns = 1 /\ rwMap \in RwMaps /\ FilePaths(rwIn) = <<>>) =>
    /\ Len(LinkHrefs(rwOut)) = Len(LinkHrefs(rwIn))
    /\ \A i \in 1..Len(LinkHrefs(rwIn)) :
         LET href == LinkHrefs(rwIn)[i]
         IN  (IsLocalReference(href) /\ TracedKey(href) \in DOMAIN rwMap) =>
               LinkHrefs(rwOut)[i] = rwMap[TracedKey(href)] \o Fragment(href)

\* the same, for links written as the key of the map or as the key after
\* one leading "./"
C27_PlainLinksPointToDestination ==
  (rwRuns = 1 /\ rwMap \in RwMaps /\ FilePaths(rwIn) = <<>>) =>
    /\ Len(LinkHrefs(rwOut)) = Len(LinkHrefs(rwIn))
    /\ \A i \in 1..Len(LinkHrefs(rwIn)) :
         LET href == LinkHrefs(rwIn)[i]
         IN  ( /\ IsLocalReference(href)
               /\ TracedKey(href) \in DOMAIN rwMap
               /\ StripDotSlash(PathPart(href)) = TracedKey(href) ) =>
               LinkHrefs(rwOut)[i] = rwMap[TracedKey(href)] \o Fragment(href)

====
